---- MODULE Spec2Model ----
(***************************************************************************)
(* ServerManager of src/server_manager.py: free-port discovery, ordered    *)
(* startup of controller -> model worker -> OpenAI API server, readiness   *)
(* polling and shutdown.  The orchestrator is single-threaded; the launched *)
(* processes and the other listeners of the host are the environment.      *)
(***************************************************************************)
EXTENDS Integers, Sequences, FiniteSets, TLC

(* ------------------------------ bounds --------------------------------- *)
\* processes one orchestrator instance launches during a run
MaxProcs == 3
\* ports at the bottom of each role's range that other programs may hold
MaxExt == 1
\* largest explicit max_attempts of a direct find_free_port call
MaxAttemptsArg == 2
\* other processes on the host when a sweep runs
MaxHost == 2

(* ------------------------ program constants ---------------------------- *)
ControllerBase == 21001
OpenaiApiBase == 8000
ModelWorkerBase == 21002
DefaultMaxAttempts == 100
MaxPortNumber == 65535
StatusThreshold == 10000

base_ports ==
  [controller |-> ControllerBase, openai_api |-> OpenaiApiBase,
   model_worker_base |-> ModelWorkerBase]

\* find_free_port signals "no free port" by raising; 0 stands for "no port"
NoPort == 0

VARIABLES
  processes,      \* self.processes: the dict in insertion order, <<[name, proc]>>
  running_ports,  \* self.running_ports
  procs,          \* OS processes launched by this instance, by slot
  ext,            \* ports on which another program is listening
  op,             \* the public method in progress ("none" when idle)
  pc,             \* position inside the method
  cur,            \* locals of the call in progress
  sd,             \* trace of the current/last stop_all_servers loop
  fs,             \* trace of the current/last start_full_stack call
  ret,            \* outcome of the last completed public call
  tester,         \* the LLMTester: its fields and its methods in progress
  host,           \* the other processes of the host, as psutil.process_iter() lists them
  peer            \* a second ServerManager instance on the same host

vars ==
  <<processes, running_ports, procs, ext, op, pc, cur, sd, fs, ret, tester, host, peer>>

(* ------------------------------ helpers -------------------------------- *)
WorkerNames ==
  <<"worker_0", "worker_1", "worker_2", "worker_3", "worker_4",
    "worker_5", "worker_6", "worker_7", "worker_8", "worker_9">>

\* name.startswith('worker')
IsWorkerKey(name) == \E k \in 1..Len(WorkerNames) : WorkerNames[k] = name

\* the slots of the OS process table this run can use
Slots == DOMAIN procs
Pids == {i \in Slots : procs[i].st # "gone"}
Alive(i) == procs[i].st \in {"starting", "up"}
Listening(i) == procs[i].st = "up"

\* patterns = ['controller', 'model_worker', 'openai_api_server']
Patterns == {"controller", "model_worker", "openai_api_server"}
ProgramName == "fastchat"

\* a command line, as the set of these substrings it contains
CmdLines ==
  {{"fastchat", "controller"}, {"fastchat", "openai_api_server"}, {"fastchat"},
   {"model_worker"}, {}}

\* any(pattern in cmdline for pattern in patterns) and 'fastchat' in cmdline
CmdMatches(cmdline) ==
  (\E pattern \in Patterns : pattern \in cmdline) /\ ProgramName \in cmdline

\* the first worker port after the swept range(21002, 21010)
UnsweptPort == 21010
HostPorts == {ControllerBase, UnsweptPort}

\* the connection a process holds: none, or a socket with this local port
\* that accepts connections on localhost or does not
HostConns ==
  {[port |-> NoPort, listen |-> FALSE]}
    \cup {[port |-> p, listen |-> l] : p \in HostPorts, l \in BOOLEAN}

\* what proc.kill(); proc.wait(timeout=5) ends with for a process
KillOutcomes == {"exits", "TimeoutExpired", "NoSuchProcess", "AccessDenied"}

HostProcs ==
  [cmdline : CmdLines, conn : HostConns, onkill : KillOutcomes, st : {"run"}]

HostListeners(h) ==
  {h[i].conn.port : i \in {j \in DOMAIN h : h[j].st = "run" /\ h[j].conn.listen}}

\* every port some listener accepts connections on, for a process table h
BusyWith(h) ==
  ext \cup {procs[i].port : i \in {j \in Pids : Listening(j)}} \cup HostListeners(h)

\* every port some listener accepts connections on
Busy == BusyWith(host)

\* socket.connect_ex(('localhost', port)) != 0; any exception counts as "not free"
is_port_free(port) == port <= MaxPortNumber /\ port \notin Busy

RECURSIVE ScanPorts(_, _)
ScanPorts(port, stop) ==
  IF port >= stop THEN NoPort
  ELSE IF is_port_free(port) THEN port
  ELSE ScanPorts(port + 1, stop)

\* variant: the scan starts one port too high
find_free_port_skip(start_port, max_attempts) ==
  ScanPorts(start_port + 1, start_port + max_attempts)

\* variant: an exhausted scan falls back to start_port instead of raising
find_free_port_fallback(start_port, max_attempts) ==
  IF ScanPorts(start_port, start_port + max_attempts) = NoPort
  THEN start_port
  ELSE ScanPorts(start_port, start_port + max_attempts)

find_free_port(start_port, max_attempts) ==
  ScanPorts(start_port, start_port + max_attempts)

\* requests.get(url).status_code == 200 for http://localhost:<port>/list_models
ServesListModels(port) ==
  \E i \in Pids : Listening(i) /\ procs[i].port = port /\ procs[i].role = "controller"

\* ... for http://localhost:<port>/v1/models
ServesV1Models(port) ==
  \E i \in Pids : Listening(i) /\ procs[i].port = port /\ procs[i].role = "openai_api"

is_service_running(port, endpoint) ==
  IF endpoint = "list_models" THEN ServesListModels(port) ELSE ServesV1Models(port)

\* variant: the first tracked port is taken without probing it
FindController_unprobed(ports) ==
  IF ports = <<>> THEN NoPort ELSE Head(ports)

\* for p in self.running_ports: if is_service_running(.../list_models): break
RECURSIVE FindController(_)
FindController(ports) ==
  IF ports = <<>> THEN NoPort
  ELSE IF is_service_running(Head(ports), "list_models") THEN Head(ports)
  ELSE FindController(Tail(ports))

check_worker_registered(controller_port, model_name) ==
  /\ ServesListModels(controller_port)
  /\ \E i \in Pids : /\ procs[i].role = "model_worker"
                     /\ procs[i].ctl = controller_port
                     /\ procs[i].reg
                     /\ procs[i].model = model_name

\* self.processes[name] = process
DictPut(d, name, proc) ==
  IF \E k \in 1..Len(d) : d[k].name = name
  THEN [k \in 1..Len(d) |->
          IF d[k].name = name THEN [name |-> name, proc |-> proc] ELSE d[k]]
  ELSE Append(d, [name |-> name, proc |-> proc])

\* worker_id = f"worker_{len([k for k in self.processes.keys() if k.startswith('worker')])}"
DefaultWorkerId ==
  WorkerNames[Cardinality({k \in 1..Len(processes) : IsWorkerKey(processes[k].name)}) + 1]

NoCur ==
  [worker_id |-> "None", model |-> "None", port |-> NoPort,
   controller_port |-> NoPort, i |-> 0, err |-> "none",
   cport |-> NoPort, wport |-> NoPort,
   timeout |-> 0, elapsed |-> 0, probes |-> <<>>,
   report |-> [controller |-> NoPort, openai_api |-> NoPort, workers |-> <<>>],
   max_retries |-> 0, recheck |-> "none", available |-> <<>>]

NoMap == [controller |-> NoPort, worker |-> NoPort, api |-> NoPort]
NoFs ==
  [launched |-> {}, roles |-> {}, healthy |-> {}, warned |-> FALSE,
   err |-> "none", at |-> "none"]

Models == {"lmsys/vicuna-7b-v1.5"}

NewProc(role, port, ctl, model) ==
  [role |-> role, port |-> port, ctl |-> ctl, model |-> model,
   st |-> "starting", reg |-> FALSE]

\* a slot that holds no process
Gone ==
  [role |-> "none", port |-> NoPort, ctl |-> NoPort, model |-> "None",
   st |-> "gone", reg |-> FALSE]

Tracked(d) == {d[k].proc : k \in 1..Len(d)}
FreeSlots == {i \in Slots : procs[i].st = "gone"}
NextSlot == CHOOSE i \in FreeSlots : \A j \in FreeSlots : i <= j

\* a second instance that has done nothing yet: its process table, its port
\* pool, its position, the port local of its start_controller call; and, as
\* history, the processes its sweeps have killed and whether one of its
\* launches was given a port that a live process of the first instance's
\* table had been given and had not bound yet
NoPeer ==
  [processes |-> <<>>, running_ports |-> <<>>, pc |-> "idle", port |-> NoPort,
   swept |-> {}, collided |-> FALSE]

\* a process of the table d was given the port, is alive and has not bound it
PendingOn(d, port) ==
  \E k \in 1..Len(d) :
    procs[d[k].proc].port = port /\ procs[d[k].proc].st = "starting"

\* an exited process that no Popen handle of either instance refers to is reaped
ReapAll(ps, d, e) ==
  [i \in Slots |->
     IF ps[i].st = "dead" /\ i \notin (Tracked(d) \cup Tracked(e)) THEN Gone ELSE ps[i]]

\* an exited process that no Popen handle of the table refers to is reaped
Reap(ps, d) == ReapAll(ps, d, peer.processes)

\* what one ensure_servers_running call has done so far: the outcome of the
\* test of the configured API base, for each port probed whether it answered
\* 200, whether start_full_stack was called, and the base URLs whose
\* GET /v1/models was answered 200
NoEsr == [base |-> "unset", probes |-> <<>>, started |-> FALSE, answered |-> {}]

\* no HTTP exchange
NoResp == [kind |-> "none", status |-> 0, body |-> "none", data |-> <<>>]

NoRet ==
  [op |-> "none", status |-> "none", err |-> "none", port |-> NoPort,
   map |-> NoMap, warned |-> FALSE, start |-> 0, max |-> 0,
   value |-> "none", resp |-> NoResp, timeout |-> 0, probes |-> <<>>,
   kills |-> <<>>, name |-> <<>>,
   report |-> [controller |-> NoPort, openai_api |-> NoPort, workers |-> <<>>],
   max_retries |-> 0, recheck |-> "none", available |-> <<>>, esr |-> NoEsr]

\* LLMTester(api_base=None): no API base URL, no model known yet, servers
\* started automatically; no method of the tester in progress
NoTester ==
  [api_base |-> "None", available_models |-> <<>>, auto_start_servers |-> TRUE,
   frames |-> <<>>, rows |-> 0, esr |-> NoEsr]

Init ==
  /\ processes = <<>>
  /\ running_ports = <<>>
  /\ procs = [i \in 1..MaxProcs |-> Gone]
  /\ ext = {}
  /\ op = "none"
  /\ pc = "idle"
  /\ cur = NoCur
  /\ sd = <<>>
  /\ fs = NoFs
  /\ ret = NoRet
  /\ tester = NoTester
  /\ host = <<>>
  /\ peer = NoPeer

(* --------------------------- environment ------------------------------- *)
RoleBases == {OpenaiApiBase, ControllerBase, ModelWorkerBase}
RangeOf(b) == b..(b + DefaultMaxAttempts - 1)
\* what the other programs of the host may hold when the caller arrives:
\* the lowest ports of one role's scan range, or all of it
ExtConfigs ==
  {b..(b + k - 1) : b \in RoleBases, k \in 0..MaxExt}
    \cup {RangeOf(b) : b \in RoleBases}

\* The environment moves before a call is made and before the caller looks at
\* its outcome, not between the call and the first statement of the method.
EnvTurn ==
  /\ pc \notin {"done", "cleanup"}
  /\ ~(op = "controller" /\ pc = "ctl_launch")
  /\ ~(op = "worker" /\ pc = "wk_launch")
  /\ ~(op = "openai_api" /\ pc = "api_launch")
  /\ ~(op = "stop" /\ pc = "stop_loop" /\ cur.i = 1)

\* another program starts listening on a port
ExtBind(p) ==
  /\ EnvTurn
  /\ p \notin Busy
  /\ ext' = ext \cup {p}
  /\ UNCHANGED <<processes, running_ports, procs, op, pc, cur, sd, fs, ret>>
  /\ UNCHANGED <<tester, host, peer>>

\* the other programs stop listening
ExtReleaseAll ==
  /\ EnvTurn
  /\ ext # {}
  /\ ext' = {}
  /\ UNCHANGED <<processes, running_ports, procs, op, pc, cur, sd, fs, ret>>
  /\ UNCHANGED <<tester, host, peer>>

\* a launched process binds its --port and starts answering
ProcUp(i) ==
  /\ EnvTurn
  /\ procs[i].st = "starting"
  /\ procs[i].port \notin Busy
  /\ procs' = [procs EXCEPT ![i].st = "up"]
  /\ UNCHANGED <<processes, running_ports, ext, op, pc, cur, sd, fs, ret>>
  /\ UNCHANGED <<tester, host, peer>>

\* a launched process exits (on its own, or as its reaction to a signal)
ProcExit(i) ==
  /\ EnvTurn
  /\ Alive(i)
  /\ procs' = Reap([procs EXCEPT ![i].st = "dead", ![i].reg = FALSE], processes)
  /\ UNCHANGED <<processes, running_ports, ext, op, pc, cur, sd, fs, ret>>
  /\ UNCHANGED <<tester, host, peer>>

\* a worker registers its model with the controller it was given
ProcRegister(i) ==
  /\ EnvTurn
  /\ procs[i].role = "model_worker"
  /\ Listening(i)
  /\ ~procs[i].reg
  /\ ServesListModels(procs[i].ctl)
  /\ procs' = [procs EXCEPT ![i].reg = TRUE]
  /\ UNCHANGED <<processes, running_ports, ext, op, pc, cur, sd, fs, ret>>
  /\ UNCHANGED <<tester, host, peer>>

(* ------------------------- call and return ----------------------------- *)
NoStop == [proc |-> 0, term |-> "none", wait |-> "none", kill |-> "none"]

\* for name, process in self.processes.items(): nothing done to any entry yet
StopPlan == [k \in 1..Len(processes) |-> [NoStop EXCEPT !.proc = processes[k].proc]]

\* a public method returns or raises to the caller
Finish(status, err, port, map, warned) ==
  /\ op' = "none"
  /\ pc' = "done"
  /\ cur' = NoCur
  /\ ret' = [NoRet EXCEPT !.op = op, !.status = status, !.err = err,
                          !.port = port, !.map = map, !.warned = warned]

\* variant: every start method stops all servers before it raises
Raise_teardown(e) ==
  /\ pc' = "stop_loop"
  /\ cur' = [cur EXCEPT !.err = e, !.i = 1]
  /\ sd' = StopPlan
  /\ fs' = [fs EXCEPT !.err = e, !.at = pc]
  /\ UNCHANGED <<op, ret>>

\* an exception leaves a start method: inside start_full_stack the except
\* block runs stop_all_servers and re-raises, otherwise the caller gets it
Raise(e) ==
  IF op = "full"
  THEN /\ pc' = "stop_loop"
       /\ cur' = [cur EXCEPT !.err = e, !.i = 1]
       /\ sd' = StopPlan
       /\ fs' = [fs EXCEPT !.err = e, !.at = pc]
       /\ UNCHANGED <<op, ret>>
  ELSE /\ Finish("raised", e, NoPort, NoMap, FALSE)
       /\ UNCHANGED <<sd, fs>>

\* variant: the new port is put in front of the pool
Launch_prepend(name, role, port, ctl, model) ==
  /\ processes' = DictPut(processes, name, NextSlot)
  /\ procs' = Reap([procs EXCEPT ![NextSlot] = NewProc(role, port, ctl, model)],
                   processes')
  /\ running_ports' = <<port>> \o running_ports
  /\ fs' = IF op = "full"
           THEN [fs EXCEPT !.launched = @ \cup {NextSlot}, !.roles = @ \cup {role}]
           ELSE fs

\* subprocess.Popen(cmd); self.processes[name] = process; self.running_ports.append(port)
Launch(name, role, port, ctl, model) ==
  /\ processes' = DictPut(processes, name, NextSlot)
  /\ procs' = Reap([procs EXCEPT ![NextSlot] = NewProc(role, port, ctl, model)],
                   processes')
  /\ running_ports' = Append(running_ports, port)
  /\ fs' = IF op = "full"
           THEN [fs EXCEPT !.launched = @ \cup {NextSlot}, !.roles = @ \cup {role}]
           ELSE fs

\* room for n more launches within the model's bound
Room(n) ==
  /\ Cardinality(FreeSlots) >= n
  /\ Len(running_ports) + n <= Cardinality(Slots)

\* the caller has seen the outcome; the traces of the call are dropped
Return ==
  /\ pc = "done"
  /\ pc' = "idle"
  /\ ret' = NoRet
  /\ sd' = <<>>
  /\ fs' = NoFs
  /\ UNCHANGED <<processes, running_ports, procs, ext, op, cur>>
  /\ UNCHANGED <<tester, host, peer>>

(* --------------------------- find_free_port ---------------------------- *)
StartPorts == RoleBases
AttemptArgs == (0..MaxAttemptsArg) \cup {DefaultMaxAttempts}

call_find_free_port(start_port, max_attempts) ==
  /\ pc = "idle"
  /\ LET port == find_free_port(start_port, max_attempts)
         r == [NoRet EXCEPT !.op = "find_free_port", !.start = start_port,
                            !.max = max_attempts]
     IN ret' = IF port = NoPort
               THEN [r EXCEPT !.status = "raised", !.err = "NoFreePort"]
               ELSE [r EXCEPT !.status = "ok", !.port = port]
  /\ pc' = "done"
  /\ UNCHANGED <<processes, running_ports, procs, ext, op, cur, sd, fs>>
  /\ UNCHANGED <<tester, host, peer>>

(* ------------------------ wait_for_service ----------------------------- *)
HealthTimeout == 30

\* some poll inside the timeout is answered 200
wait_for_service_true(port, endpoint, timeout) ==
  timeout > 0 /\ is_service_running(port, endpoint)

\* the timeout elapses and the last poll was not answered 200
wait_for_service_false(port, endpoint, timeout) ==
  timeout <= 0 \/ ~is_service_running(port, endpoint)

\* The polling loop itself, one probe per step, with time in whole seconds.
\* largest timeout argument of a direct wait_for_service call
MaxWaitTimeout == 5
WaitTimeoutArgs == (0 - 1)..MaxWaitTimeout

\* time.sleep(1) between two probes
PollInterval == 1
\* requests.get(url, timeout=2)
RequestTimeout == 2

\* what one requests.get(url, timeout=2) can end with: a 200 answer, an
\* answer with another status, a refused connection, no answer within 2 s
ProbeOutcomes == {"200", "503", "ConnectionError", "Timeout"}

\* seconds one loop iteration takes when its probe does not return 200
ProbeCost(outcome) ==
  (IF outcome = "Timeout" THEN RequestTimeout ELSE 0) + PollInterval

call_wait_for_service(timeout) ==
  /\ pc = "idle"
  /\ op' = "wait_for_service"
  /\ pc' = "wfs_loop"
  /\ cur' = [NoCur EXCEPT !.timeout = timeout]
  /\ UNCHANGED <<processes, running_ports, procs, ext, sd, fs, ret, tester, host, peer>>

\* variant: the timeout is tested after the probe instead of before it
wait_for_service_probe_first ==
  /\ pc = "wfs_loop"
  /\ (cur.elapsed < cur.timeout \/ cur.probes = <<>>)
  /\ \E outcome \in ProbeOutcomes :
       IF outcome = "200"
       THEN /\ op' = "none"
            /\ pc' = "done"
            /\ cur' = NoCur
            /\ ret' = [NoRet EXCEPT !.op = op, !.status = "ok", !.value = "True",
                                    !.timeout = cur.timeout,
                                    !.probes = Append(cur.probes, outcome)]
       ELSE /\ cur' = [cur EXCEPT !.probes = Append(@, outcome),
                                  !.elapsed = @ + ProbeCost(outcome)]
            /\ UNCHANGED <<op, pc, ret>>
  /\ UNCHANGED <<processes, running_ports, procs, ext, sd, fs, tester, host, peer>>

\* one iteration: while time.time() - start_time < timeout: probe; a 200
\* returns True, anything else (RequestException swallowed) sleeps and loops
wait_for_service_probe ==
  /\ pc = "wfs_loop"
  /\ cur.elapsed < cur.timeout
  /\ \E outcome \in ProbeOutcomes :
       IF outcome = "200"
       THEN /\ op' = "none"
            /\ pc' = "done"
            /\ cur' = NoCur
            /\ ret' = [NoRet EXCEPT !.op = op, !.status = "ok", !.value = "True",
                                    !.timeout = cur.timeout,
                                    !.probes = Append(cur.probes, outcome)]
       ELSE /\ cur' = [cur EXCEPT !.probes = Append(@, outcome),
                                  !.elapsed = @ + ProbeCost(outcome)]
            /\ UNCHANGED <<op, pc, ret>>
  /\ UNCHANGED <<processes, running_ports, procs, ext, sd, fs, tester, host, peer>>

\* the loop condition fails: return False
wait_for_service_expire ==
  /\ pc = "wfs_loop"
  /\ ~(cur.elapsed < cur.timeout)
  /\ op' = "none"
  /\ pc' = "done"
  /\ cur' = NoCur
  /\ ret' = [NoRet EXCEPT !.op = op, !.status = "ok", !.value = "False",
                          !.timeout = cur.timeout, !.probes = cur.probes]
  /\ UNCHANGED <<processes, running_ports, procs, ext, sd, fs, tester, host, peer>>

(* ---------------------- cleanup_existing_servers ----------------------- *)
SweptPorts == {ControllerBase, OpenaiApiBase} \cup (21002..21009)

call_cleanup_existing_servers ==
  /\ pc = "idle"
  /\ op' = "cleanup"
  /\ pc' = "cleanup"
  /\ UNCHANGED <<processes, running_ports, procs, ext, cur, sd, fs, ret>>
  /\ UNCHANGED <<tester, host, peer>>

\* the command-line sweep kills the processes in K, the port sweep the
\* listeners on X; timed_out: proc.wait(timeout=5) of the command-line sweep
\* raises psutil.TimeoutExpired, which the sweep does not catch
cleanup_existing_servers ==
  /\ pc = "cleanup"
  /\ \E K \in SUBSET {i \in Pids : Alive(i)}, X \in {{}, ext \cap SweptPorts},
        timed_out \in BOOLEAN :
       /\ timed_out => (X = {} /\ {i \in Pids : Alive(i)} \ K # {})
       /\ procs' = Reap([i \in Slots |->
                           IF i \in K
                           THEN [procs[i] EXCEPT !.st = "dead", !.reg = FALSE]
                           ELSE procs[i]], processes)
       /\ ext' = ext \ X
       /\ IF timed_out
          THEN Raise("CleanupTimeout")
          ELSE IF op = "full"
               THEN /\ pc' = "ctl_launch"
                    /\ UNCHANGED <<op, cur, ret, sd, fs>>
               ELSE /\ Finish("ok", "none", NoPort, NoMap, FALSE)
                    /\ UNCHANGED <<sd, fs>>
  /\ UNCHANGED <<processes, running_ports>>
  /\ UNCHANGED <<tester, host, peer>>

(* ------------- kill_processes_on_port and the two sweeps ---------------- *)
\* for port in [21001, 8000] + list(range(21002, 21010))
SweptPortList == <<ControllerBase, OpenaiApiBase>> \o [k \in 1..8 |-> ModelWorkerBase + k - 1]

\* the processes a kill loop has removed: killed and exited, or found vanished
AfterKills(h, log) ==
  [i \in DOMAIN h |->
     IF \E k \in 1..Len(log) :
          log[k].pid = i /\ log[k].outcome \in {"exits", "NoSuchProcess"}
     THEN [h[i] EXCEPT !.st = "dead"]
     ELSE h[i]]

\* The loop of kill_processes_on_port from process i on, as the log of its
\* proc.kill() calls.  NoSuchProcess and AccessDenied are caught inside the
\* loop (continue); psutil.TimeoutExpired is not, reaches the outer
\* "except Exception" and ends the loop.
RECURSIVE PortKillLog(_, _, _)
PortKillLog(h, port, i) ==
  IF i > Len(h) THEN <<>>
  ELSE IF h[i].st = "run" /\ h[i].conn.port = port
  THEN IF h[i].onkill = "TimeoutExpired"
       THEN <<[pid |-> i, outcome |-> h[i].onkill, port |-> port]>>
       ELSE <<[pid |-> i, outcome |-> h[i].onkill, port |-> port]>>
              \o PortKillLog(h, port, i + 1)
  ELSE PortKillLog(h, port, i + 1)

\* The command-line loop of cleanup_existing_servers from process i on.
\* psutil.TimeoutExpired is not caught and ends the loop by leaving the method.
RECURSIVE CmdKillLog(_, _)
CmdKillLog(h, i) ==
  IF i > Len(h) THEN <<>>
  ELSE IF h[i].st = "run" /\ CmdMatches(h[i].cmdline)
  THEN IF h[i].onkill = "TimeoutExpired"
       THEN <<[pid |-> i, outcome |-> h[i].onkill, port |-> NoPort]>>
       ELSE <<[pid |-> i, outcome |-> h[i].onkill, port |-> NoPort]>>
              \o CmdKillLog(h, i + 1)
  ELSE CmdKillLog(h, i + 1)

\* for port in ...: if not self.is_port_free(port): self.kill_processes_on_port(port)
RECURSIVE PortSweepLog(_, _)
PortSweepLog(h, ports) ==
  IF ports = <<>> THEN <<>>
  ELSE LET port == Head(ports)
           log == IF port \notin BusyWith(h) THEN <<>> ELSE PortKillLog(h, port, 1)
       IN log \o PortSweepLog(AfterKills(h, log), Tail(ports))

\* the whole of kill_processes_on_port: it logs a warning and returns None
\* whatever happened
kill_processes_on_port(port) ==
  /\ pc = "idle"
  /\ LET log == PortKillLog(host, port, 1) IN
       /\ host' = AfterKills(host, log)
       /\ ret' = [NoRet EXCEPT !.op = "kill_processes_on_port", !.status = "ok",
                               !.port = port, !.kills = log]
  /\ pc' = "done"
  /\ UNCHANGED <<processes, running_ports, procs, ext, op, cur, sd, fs, tester, peer>>

\* the whole of cleanup_existing_servers over the process table of the host:
\* the command-line loop, then the port loop
cleanup_existing_servers_sweep ==
  /\ pc = "idle"
  /\ LET cmdlog == CmdKillLog(host, 1)
         raised == cmdlog # <<>> /\ cmdlog[Len(cmdlog)].outcome = "TimeoutExpired"
         swept == AfterKills(host, cmdlog)
         portlog == IF raised THEN <<>> ELSE PortSweepLog(swept, SweptPortList)
     IN /\ host' = AfterKills(swept, portlog)
        /\ ret' = [NoRet EXCEPT !.op = "cleanup_existing_servers",
                                !.status = IF raised THEN "raised" ELSE "ok",
                                !.err = IF raised THEN "CleanupTimeout" ELSE "none",
                                !.kills = cmdlog \o portlog]
  /\ pc' = "done"
  /\ UNCHANGED <<processes, running_ports, procs, ext, op, cur, sd, fs, tester, peer>>

(* -------------------- the second instance's calls ----------------------- *)
peer_call_cleanup_existing_servers ==
  /\ peer.pc = "idle"
  /\ peer' = [peer EXCEPT !.pc = "cleanup"]
  /\ UNCHANGED <<processes, running_ports, procs, ext, op, pc, cur, sd, fs, ret,
                 tester, host>>

\* cleanup_existing_servers run by the second instance: its sweep kills the
\* processes in K, whoever launched them, and touches no table
peer_cleanup_existing_servers ==
  /\ peer.pc = "cleanup"
  /\ \E K \in SUBSET {i \in Pids : Alive(i)} :
       /\ procs' = Reap([i \in Slots |->
                           IF i \in K
                           THEN [procs[i] EXCEPT !.st = "dead", !.reg = FALSE]
                           ELSE procs[i]], processes)
       /\ peer' = [peer EXCEPT !.pc = "idle", !.swept = @ \cup K]
  /\ UNCHANGED <<processes, running_ports, ext, op, pc, cur, sd, fs, ret,
                 tester, host>>

peer_call_start_controller ==
  /\ peer.pc = "idle"
  /\ Cardinality(FreeSlots) > (IF pc = "ctl_launch" THEN 1 ELSE 0)
  /\ Len(peer.running_ports) < Cardinality(Slots)
  /\ peer' = [peer EXCEPT !.pc = "ctl_launch"]
  /\ UNCHANGED <<processes, running_ports, procs, ext, op, pc, cur, sd, fs, ret,
                 tester, host>>

\* variant: the scan also skips the ports the other instance has allocated
peer_start_controller_launch_serialized ==
  /\ peer.pc = "ctl_launch"
  /\ LET free == {p \in RangeOf(base_ports.controller) :
                    /\ is_port_free(p)
                    /\ \A k \in 1..Len(running_ports) : running_ports[k] # p}
         port == IF free = {} THEN NoPort
                 ELSE CHOOSE p \in free : \A q \in free : p <= q
     IN
       IF port = NoPort
       THEN /\ peer' = [peer EXCEPT !.pc = "idle"]
            /\ UNCHANGED procs
       ELSE /\ peer' = [peer EXCEPT
                          !.processes = DictPut(@, "controller", NextSlot),
                          !.running_ports = Append(@, port),
                          !.pc = "ctl_wait", !.port = port,
                          !.collided = @ \/ PendingOn(processes, port)]
            /\ procs' = ReapAll([procs EXCEPT ![NextSlot] =
                                    NewProc("controller", port, NoPort, "None")],
                                processes, peer'.processes)
  /\ UNCHANGED <<processes, running_ports, ext, op, pc, cur, sd, fs, ret,
                 tester, host>>

\* start_controller of the second instance up to the health wait: the scan,
\* Popen, the table entry and the pool entry
peer_start_controller_launch ==
  /\ peer.pc = "ctl_launch"
  /\ LET port == find_free_port(base_ports.controller, DefaultMaxAttempts) IN
       IF port = NoPort
       THEN /\ peer' = [peer EXCEPT !.pc = "idle"]
            /\ UNCHANGED procs
       ELSE /\ peer' = [peer EXCEPT
                          !.processes = DictPut(@, "controller", NextSlot),
                          !.running_ports = Append(@, port),
                          !.pc = "ctl_wait", !.port = port,
                          !.collided = @ \/ PendingOn(processes, port)]
            /\ procs' = ReapAll([procs EXCEPT ![NextSlot] =
                                    NewProc("controller", port, NoPort, "None")],
                                processes, peer'.processes)
  /\ UNCHANGED <<processes, running_ports, ext, op, pc, cur, sd, fs, ret,
                 tester, host>>

\* the health wait of the second instance's start_controller: it returns the
\* port or raises
peer_start_controller_wait ==
  /\ peer.pc = "ctl_wait"
  /\ \/ wait_for_service_true(peer.port, "list_models", HealthTimeout)
     \/ wait_for_service_false(peer.port, "list_models", HealthTimeout)
  /\ peer' = [peer EXCEPT !.pc = "idle", !.port = NoPort]
  /\ UNCHANGED <<processes, running_ports, procs, ext, op, pc, cur, sd, fs, ret,
                 tester, host>>

(* ---------------------------- start_controller ------------------------- *)
call_start_controller ==
  /\ pc = "idle"
  /\ Room(1)
  /\ op' = "controller"
  /\ pc' = "ctl_launch"
  /\ UNCHANGED <<processes, running_ports, procs, ext, cur, sd, fs, ret>>
  /\ UNCHANGED <<tester, host, peer>>

start_controller_launch ==
  /\ pc = "ctl_launch"
  /\ LET port == find_free_port(base_ports.controller, DefaultMaxAttempts) IN
       IF port = NoPort
       THEN /\ Raise("NoFreePort")
            /\ UNCHANGED <<processes, running_ports, procs>>
       ELSE /\ Launch("controller", "controller", port, NoPort, "None")
            /\ pc' = "ctl_wait"
            /\ cur' = [cur EXCEPT !.port = port]
            /\ UNCHANGED <<op, ret, sd>>
  /\ UNCHANGED ext
  /\ UNCHANGED <<tester, host, peer>>

\* variant: the worker is launched as soon as the controller process exists
start_controller_wait_unconfirmed ==
  /\ pc = "ctl_wait"
  /\ IF op = "full"
     THEN /\ pc' = "wk_launch"
          /\ cur' = [cur EXCEPT !.cport = cur.port, !.port = NoPort]
          /\ UNCHANGED <<op, ret, fs>>
     ELSE /\ Finish("ok", "none", cur.port, NoMap, FALSE)
          /\ UNCHANGED fs
  /\ UNCHANGED <<processes, running_ports, procs, ext, sd>>
  /\ UNCHANGED <<tester, host, peer>>

start_controller_wait ==
  /\ pc = "ctl_wait"
  /\ \/ /\ wait_for_service_true(cur.port, "list_models", HealthTimeout)
        /\ IF op = "full"
           THEN /\ pc' = "wk_launch"
                /\ cur' = [cur EXCEPT !.cport = cur.port, !.port = NoPort]
                /\ fs' = [fs EXCEPT !.healthy = @ \cup {"controller"}]
                /\ UNCHANGED <<op, ret>>
           ELSE /\ Finish("ok", "none", cur.port, NoMap, FALSE)
                /\ UNCHANGED fs
        /\ UNCHANGED sd
     \/ /\ wait_for_service_false(cur.port, "list_models", HealthTimeout)
        /\ Raise("ControllerFailed")
  /\ UNCHANGED <<processes, running_ports, procs, ext>>
  /\ UNCHANGED <<tester, host, peer>>

(* --------------------------- start_model_worker ------------------------ *)
WorkerIdArgs == {"None", "worker_1"}

call_start_model_worker(model_name, worker_id) ==
  /\ pc = "idle"
  /\ Room(1)
  /\ op' = "worker"
  /\ pc' = "wk_launch"
  /\ cur' = [NoCur EXCEPT !.worker_id = worker_id, !.model = model_name]
  /\ UNCHANGED <<processes, running_ports, procs, ext, sd, fs, ret>>
  /\ UNCHANGED <<tester, host, peer>>

start_model_worker_launch ==
  /\ pc = "wk_launch"
  /\ LET worker_id == IF cur.worker_id = "None" THEN DefaultWorkerId ELSE cur.worker_id
         port == find_free_port(base_ports.model_worker_base, DefaultMaxAttempts)
         controller_port == FindController(running_ports)
     IN
       IF port = NoPort
       THEN /\ Raise("NoFreePort")
            /\ UNCHANGED <<processes, running_ports, procs>>
       ELSE IF controller_port = NoPort
       THEN /\ Raise("ControllerNotRunning")
            /\ UNCHANGED <<processes, running_ports, procs>>
       ELSE /\ Launch(worker_id, "model_worker", port, controller_port, cur.model)
            /\ pc' = "wk_check"
            /\ cur' = [cur EXCEPT !.port = port, !.controller_port = controller_port,
                                  !.worker_id = worker_id]
            /\ UNCHANGED <<op, ret, sd>>
  /\ UNCHANGED ext
  /\ UNCHANGED <<tester, host, peer>>

\* variant: a worker that did not register is treated as a startup failure
start_model_worker_check_fatal ==
  /\ pc = "wk_check"
  /\ LET warned == ~check_worker_registered(cur.controller_port, cur.model) IN
       IF warned
       THEN IF op = "full"
            THEN /\ pc' = "stop_loop"
                 /\ cur' = [cur EXCEPT !.err = "WorkerNotRegistered", !.i = 1]
                 /\ fs' = [fs EXCEPT !.warned = TRUE, !.err = "WorkerNotRegistered",
                                     !.at = pc]
                 /\ sd' = StopPlan
                 /\ UNCHANGED <<op, ret>>
            ELSE /\ Finish("raised", "WorkerNotRegistered", NoPort, NoMap, TRUE)
                 /\ UNCHANGED <<fs, sd>>
       ELSE /\ IF op = "full"
               THEN /\ pc' = "api_launch"
                    /\ cur' = [cur EXCEPT !.wport = cur.port, !.port = NoPort,
                                          !.controller_port = NoPort]
                    /\ fs' = [fs EXCEPT !.warned = FALSE]
                    /\ UNCHANGED <<op, ret>>
               ELSE /\ Finish("ok", "none", cur.port, NoMap, FALSE)
                    /\ UNCHANGED fs
            /\ UNCHANGED sd
  /\ UNCHANGED <<processes, running_ports, procs, ext>>
  /\ UNCHANGED <<tester, host, peer>>

\* time.sleep(10); check_worker_registered(...): both branches return port
start_model_worker_check ==
  /\ pc = "wk_check"
  /\ LET warned == ~check_worker_registered(cur.controller_port, cur.model) IN
       IF op = "full"
       THEN /\ pc' = "api_launch"
            /\ cur' = [cur EXCEPT !.wport = cur.port, !.port = NoPort,
                                  !.controller_port = NoPort]
            /\ fs' = [fs EXCEPT !.warned = warned]
            /\ UNCHANGED <<op, ret>>
       ELSE /\ Finish("ok", "none", cur.port, NoMap, warned)
            /\ UNCHANGED fs
  /\ UNCHANGED <<processes, running_ports, procs, ext, sd>>
  /\ UNCHANGED <<tester, host, peer>>

(* ------------------------ start_openai_api_server ---------------------- *)
call_start_openai_api_server ==
  /\ pc = "idle"
  /\ Room(1)
  /\ op' = "openai_api"
  /\ pc' = "api_launch"
  /\ UNCHANGED <<processes, running_ports, procs, ext, cur, sd, fs, ret>>
  /\ UNCHANGED <<tester, host, peer>>

start_openai_api_server_launch ==
  /\ pc = "api_launch"
  /\ LET port == find_free_port(base_ports.openai_api, DefaultMaxAttempts)
         controller_port == FindController(running_ports)
     IN
       IF port = NoPort
       THEN /\ Raise("NoFreePort")
            /\ UNCHANGED <<processes, running_ports, procs>>
       ELSE IF controller_port = NoPort
       THEN /\ Raise("ControllerNotRunning")
            /\ UNCHANGED <<processes, running_ports, procs>>
       ELSE /\ Launch("openai_api", "openai_api", port, controller_port, "None")
            /\ pc' = "api_wait"
            /\ cur' = [cur EXCEPT !.port = port, !.controller_port = controller_port]
            /\ UNCHANGED <<op, ret, sd>>
  /\ UNCHANGED ext
  /\ UNCHANGED <<tester, host, peer>>

start_openai_api_server_wait ==
  /\ pc = "api_wait"
  /\ \/ /\ wait_for_service_true(cur.port, "v1_models", HealthTimeout)
        /\ IF op = "full"
           THEN /\ Finish("ok", "none", NoPort,
                          [controller |-> cur.cport, worker |-> cur.wport,
                           api |-> cur.port], fs.warned)
                /\ fs' = [fs EXCEPT !.healthy = @ \cup {"openai_api"}]
           ELSE /\ Finish("ok", "none", cur.port, NoMap, FALSE)
                /\ UNCHANGED fs
        /\ UNCHANGED sd
     \/ /\ wait_for_service_false(cur.port, "v1_models", HealthTimeout)
        /\ Raise("ApiFailed")
  /\ UNCHANGED <<processes, running_ports, procs, ext>>
  /\ UNCHANGED <<tester, host, peer>>

(* ----------------------------- start_full_stack ------------------------ *)
call_start_full_stack(model_name) ==
  /\ pc = "idle"
  /\ Room(3)
  /\ op' = "full"
  /\ pc' = "cleanup"
  /\ cur' = [NoCur EXCEPT !.model = model_name]
  /\ UNCHANGED <<processes, running_ports, procs, ext, sd, fs, ret>>
  /\ UNCHANGED <<tester, host, peer>>

(* ----------------------------- stop_all_servers ------------------------ *)
call_stop_all_servers ==
  /\ pc = "idle"
  /\ op' = "stop"
  /\ pc' = "stop_loop"
  /\ cur' = [NoCur EXCEPT !.i = 1]
  /\ sd' = StopPlan
  /\ UNCHANGED <<processes, running_ports, procs, ext, fs, ret>>
  /\ UNCHANGED <<tester, host, peer>>

\* process.terminate(): an exception here is caught by "except Exception"
stop_terminate ==
  /\ pc = "stop_loop"
  /\ cur.i <= Len(processes)
  /\ LET p == processes[cur.i].proc IN
       \/ /\ sd' = [sd EXCEPT ![cur.i].term = "ok"]
          /\ pc' = "stop_wait"
          /\ UNCHANGED cur
       \/ /\ Alive(p)
          /\ sd' = [sd EXCEPT ![cur.i].term = "raised"]
          /\ cur' = [cur EXCEPT !.i = @ + 1]
          /\ UNCHANGED pc
  /\ UNCHANGED <<processes, running_ports, procs, ext, op, fs, ret>>
  /\ UNCHANGED <<tester, host, peer>>

\* variant: the forced kill follows the wait whether or not it timed out
stop_wait_always_kill ==
  /\ pc = "stop_wait"
  /\ sd' = [sd EXCEPT ![cur.i].wait =
              IF Alive(processes[cur.i].proc) THEN "timeout" ELSE "exited"]
  /\ pc' = "stop_kill"
  /\ UNCHANGED <<processes, running_ports, procs, ext, op, cur, fs, ret>>
  /\ UNCHANGED <<tester, host, peer>>

\* process.wait(timeout=5)
stop_wait ==
  /\ pc = "stop_wait"
  /\ LET p == processes[cur.i].proc IN
       IF Alive(p)
       THEN /\ sd' = [sd EXCEPT ![cur.i].wait = "timeout"]
            /\ pc' = "stop_kill"
            /\ UNCHANGED cur
       ELSE /\ sd' = [sd EXCEPT ![cur.i].wait = "exited"]
            /\ pc' = "stop_loop"
            /\ cur' = [cur EXCEPT !.i = @ + 1]
  /\ UNCHANGED <<processes, running_ports, procs, ext, op, fs, ret>>
  /\ UNCHANGED <<tester, host, peer>>

\* except subprocess.TimeoutExpired: process.kill(); an exception raised in
\* this handler is not caught by the sibling "except Exception" clause
stop_kill ==
  /\ pc = "stop_kill"
  /\ LET p == processes[cur.i].proc IN
       \/ /\ sd' = [sd EXCEPT ![cur.i].kill = "ok"]
          /\ pc' = "stop_killwait"
          /\ UNCHANGED <<op, cur, ret>>
       \/ /\ Alive(p)
          /\ sd' = [sd EXCEPT ![cur.i].kill = "raised"]
          /\ Finish("raised", "KillError", NoPort, NoMap, FALSE)
  /\ UNCHANGED <<processes, running_ports, procs, ext, fs>>
  /\ UNCHANGED <<tester, host, peer>>

\* process.wait() after the kill: returns once the process has exited
stop_killwait ==
  /\ pc = "stop_killwait"
  /\ ~Alive(processes[cur.i].proc)
  /\ pc' = "stop_loop"
  /\ cur' = [cur EXCEPT !.i = @ + 1]
  /\ UNCHANGED <<processes, running_ports, procs, ext, op, sd, fs, ret>>
  /\ UNCHANGED <<tester, host, peer>>

\* variant: stopping with nothing tracked is reported as an error
stop_clear_nothing_is_error ==
  /\ pc = "stop_loop"
  /\ cur.i > Len(processes)
  /\ processes' = <<>>
  /\ running_ports' = <<>>
  /\ procs' = Reap(procs, processes')
  /\ IF op = "full"
     THEN Finish("raised", cur.err, NoPort, NoMap, fs.warned)
     ELSE IF processes = <<>>
          THEN Finish("raised", "NothingToStop", NoPort, NoMap, FALSE)
          ELSE Finish("ok", "none", NoPort, NoMap, FALSE)
  /\ UNCHANGED <<ext, sd, fs>>
  /\ UNCHANGED <<tester, host, peer>>

\* self.processes.clear(); self.running_ports.clear(); in start_full_stack's
\* except block the original exception is re-raised afterwards
stop_clear ==
  /\ pc = "stop_loop"
  /\ cur.i > Len(processes)
  /\ processes' = <<>>
  /\ running_ports' = <<>>
  /\ procs' = Reap(procs, processes')
  /\ IF op = "full"
     THEN Finish("raised", cur.err, NoPort, NoMap, fs.warned)
     ELSE Finish("ok", "none", NoPort, NoMap, FALSE)
  /\ UNCHANGED <<ext, sd, fs>>
  /\ UNCHANGED <<tester, host, peer>>

(* ------------------------------- get_status ---------------------------- *)
\* status = {'controller': None, 'openai_api': None, 'workers': []}
call_get_status ==
  /\ pc = "idle"
  /\ op' = "get_status"
  /\ pc' = "gs_loop"
  /\ cur' = [NoCur EXCEPT !.i = 1]
  /\ UNCHANGED <<processes, running_ports, procs, ext, sd, fs, ret, tester, host, peer>>

\* variant: the port is classified whatever its probe returned
get_status_probe_unchecked ==
  /\ pc = "gs_loop"
  /\ cur.i <= Len(running_ports)
  /\ \E outcome \in ProbeOutcomes :
       LET port == running_ports[cur.i]
           probed == [cur EXCEPT !.i = @ + 1, !.probes = Append(@, outcome)]
       IN cur' = IF port < StatusThreshold
                 THEN [probed EXCEPT !.report.openai_api = port]
                 ELSE [probed EXCEPT !.report.controller = port]
  /\ UNCHANGED <<processes, running_ports, procs, ext, op, pc, sd, fs, ret, tester, host, peer>>

\* one iteration of "for port in self.running_ports": the port is probed and,
\* when the probe is answered 200, filed by the port-number threshold
get_status_probe ==
  /\ pc = "gs_loop"
  /\ cur.i <= Len(running_ports)
  /\ \E outcome \in ProbeOutcomes :
       LET port == running_ports[cur.i]
           probed == [cur EXCEPT !.i = @ + 1, !.probes = Append(@, outcome)]
       IN cur' = IF outcome # "200" THEN probed
                 ELSE IF port < StatusThreshold
                 THEN [probed EXCEPT !.report.openai_api = port]
                 ELSE [probed EXCEPT !.report.controller = port]
  /\ UNCHANGED <<processes, running_ports, procs, ext, op, pc, sd, fs, ret, tester, host, peer>>

\* the same iteration against the processes of the model: the GET of
\* /list_models is answered 200 exactly by a listening controller
get_status_probe_answered ==
  /\ get_status_probe
  /\ (cur'.probes[Len(cur'.probes)] = "200")
       <=> is_service_running(running_ports[cur.i], "list_models")

\* return status
get_status_return ==
  /\ pc = "gs_loop"
  /\ cur.i > Len(running_ports)
  /\ op' = "none"
  /\ pc' = "done"
  /\ cur' = NoCur
  /\ ret' = [NoRet EXCEPT !.op = op, !.status = "ok", !.probes = cur.probes,
                          !.report = cur.report]
  /\ UNCHANGED <<processes, running_ports, procs, ext, sd, fs, tester, host, peer>>

(* ------------------------ LLMTester.test_api_connection ---------------- *)
\* most entries in the "data" list of a /v1/models answer
MaxModels == 2
ModelIds == {"vicuna-7b-v1.5", "fastchat-t5-3b"}
\* an entry of "data": an object with an 'id', or one without
NoId == "<no id>"
ModelEntries == ModelIds \cup {NoId}
DataLists == UNION {[1..k -> ModelEntries] : k \in 0..MaxModels}

ApiBases == {"None", "http://localhost:8000", "http://localhost:9999"}
StatusCodes == {200, 404, 500}

\* what requests.get(f"{api_base}/v1/models", timeout=10) can end with: a
\* ConnectionError, another exception (e.g. a read timeout), or a response
\* whose body is not JSON, a JSON array, a JSON object without "data", or a
\* JSON object with a "data" list
ApiResponses ==
  {[kind |-> k, status |-> 0, body |-> "none", data |-> <<>>] :
     k \in {"ConnectionError", "Timeout"}}
  \cup {[kind |-> "response", status |-> s, body |-> b, data |-> <<>>] :
          s \in StatusCodes, b \in {"not_json", "array", "object_no_data"}}
  \cup {[kind |-> "response", status |-> s, body |-> "object", data |-> d] :
          s \in StatusCodes, d \in DataLists}

\* response.json() and the list comprehension of line 102 complete
ModelsParse(resp) ==
  /\ resp.body \in {"object", "object_no_data"}
  /\ \A k \in 1..Len(resp.data) : resp.data[k] # NoId

\* variant: the status code of the answer is not looked at
test_api_connection_any_status(resp) ==
  /\ pc = "idle"
  /\ IF tester.api_base = "None"
     THEN /\ ret' = [NoRet EXCEPT !.op = "test_api_connection", !.status = "ok",
                                  !.value = "False"]
          /\ UNCHANGED <<tester, host, peer>>
     ELSE IF resp.kind = "response" /\ ModelsParse(resp)
     THEN /\ tester' = [tester EXCEPT !.available_models = resp.data]
          /\ ret' = [NoRet EXCEPT !.op = "test_api_connection", !.status = "ok",
                                  !.value = "True", !.resp = resp]
     ELSE /\ ret' = [NoRet EXCEPT !.op = "test_api_connection", !.status = "ok",
                                  !.value = "False", !.resp = resp]
          /\ UNCHANGED <<tester, host, peer>>
  /\ pc' = "done"
  /\ UNCHANGED <<processes, running_ports, procs, ext, op, cur, sd, fs, host, peer>>

\* the whole method: no request without an API base; True and a new model
\* list only for a 200 answer whose body parses; every exception is caught
test_api_connection(resp) ==
  /\ pc = "idle"
  /\ IF tester.api_base = "None"
     THEN /\ ret' = [NoRet EXCEPT !.op = "test_api_connection", !.status = "ok",
                                  !.value = "False"]
          /\ UNCHANGED <<tester, host, peer>>
     ELSE IF resp.kind = "response" /\ resp.status = 200 /\ ModelsParse(resp)
     THEN /\ tester' = [tester EXCEPT !.available_models = resp.data]
          /\ ret' = [NoRet EXCEPT !.op = "test_api_connection", !.status = "ok",
                                  !.value = "True", !.resp = resp]
     ELSE /\ ret' = [NoRet EXCEPT !.op = "test_api_connection", !.status = "ok",
                                  !.value = "False", !.resp = resp]
          /\ UNCHANGED <<tester, host, peer>>
  /\ pc' = "done"
  /\ UNCHANGED <<processes, running_ports, procs, ext, op, cur, sd, fs, host, peer>>

(* --------------------------- LLMTester.send_prompt --------------------- *)
\* most attempts a caller asks for (the default is 3)
MaxRetries == 3
RetryArgs == 0..MaxRetries

\* the model_name argument: a model id, or none given
NoModelName == ""
ModelArgs == ModelIds \cup {NoModelName}

\* what requests.post(f"{api_base}/v1/chat/completions", ...) can end with:
\* a 200 answer whose body is a chat completion, a 200 answer whose body is
\* not (not JSON, no "choices", an empty "choices" list), another status, a
\* Timeout, a ConnectionError, or another exception
PostOutcomes ==
  {"200", "200_no_choices", "500", "Timeout", "ConnectionError", "Exception"}
Answered200 == {"200", "200_no_choices"}

\* test_api_connection returns True for the answer
ApiConnectionOk(resp) ==
  /\ tester.api_base # "None"
  /\ resp.kind = "response"
  /\ resp.status = 200
  /\ ModelsParse(resp)

\* model_name in self.available_models
Available(model_name) ==
  \E k \in 1..Len(tester.available_models) : tester.available_models[k] = model_name

\* return {"success": ..., ...}: the result, with the requests sent and the
\* outcome of the connection re-check as history
PromptReturn(value, err, sent, recheck) ==
  /\ op' = "none"
  /\ pc' = "done"
  /\ cur' = NoCur
  /\ ret' = [NoRet EXCEPT !.op = "send_prompt", !.status = "ok", !.value = value,
                          !.err = err, !.probes = sent, !.recheck = recheck,
                          !.max_retries = cur.max_retries,
                          !.available = cur.available]

\* lines 118-145: the model is chosen (the first available one when the
\* requested one is not available) or the call ends with "No models available"
call_send_prompt(model_name, max_retries) ==
  /\ pc = "idle"
  /\ IF (model_name = NoModelName \/ ~Available(model_name))
        /\ tester.available_models = <<>>
     THEN /\ ret' = [NoRet EXCEPT !.op = "send_prompt", !.status = "ok",
                                  !.value = "failure", !.err = "No models available",
                                  !.max_retries = max_retries]
          /\ pc' = "done"
          /\ UNCHANGED <<op, cur>>
     ELSE /\ op' = "send_prompt"
          /\ pc' = "sp_loop"
          /\ cur' = [NoCur EXCEPT
                       !.model = IF model_name # NoModelName /\ Available(model_name)
                                 THEN model_name ELSE tester.available_models[1],
                       !.max_retries = max_retries,
                       !.available = tester.available_models]
          /\ UNCHANGED ret
  /\ UNCHANGED <<processes, running_ports, procs, ext, sd, fs, tester, host, peer>>

\* one iteration of "for attempt in range(max_retries)": the request, the
\* return on a 200 answer whose body is a completion, the handlers of lines
\* 168-179 (the re-check of the connection after a ConnectionError on the
\* first attempt, with its break), and the step to the next attempt
send_prompt_attempt ==
  /\ pc = "sp_loop"
  /\ cur.i < cur.max_retries
  /\ \E outcome \in PostOutcomes :
       LET sent == Append(cur.probes, outcome)
           next == [cur EXCEPT !.i = @ + 1, !.probes = sent]
       IN IF outcome = "200"
          THEN /\ PromptReturn("success", "none", sent, cur.recheck)
               /\ UNCHANGED tester
          ELSE IF outcome = "ConnectionError" /\ cur.i = 0
          THEN \E resp \in ApiResponses :
                 IF ApiConnectionOk(resp)
                 THEN /\ tester' = [tester EXCEPT !.available_models = resp.data]
                      /\ cur' = [next EXCEPT !.recheck = "ok"]
                      /\ UNCHANGED <<op, pc, ret>>
                 ELSE /\ PromptReturn("failure", "Request failed", sent, "failed")
                      /\ UNCHANGED tester
          ELSE /\ cur' = next
               /\ UNCHANGED <<op, pc, ret, tester>>
  /\ UNCHANGED <<processes, running_ports, procs, ext, sd, fs, host, peer>>

\* the loop is over: return the "Failed after all retry attempts" result
send_prompt_exhausted ==
  /\ pc = "sp_loop"
  /\ cur.i >= cur.max_retries
  /\ PromptReturn("failure", "Request failed", cur.probes, cur.recheck)
  /\ UNCHANGED <<processes, running_ports, procs, ext, sd, fs, tester, host, peer>>

(* ----------- LLMTester.ensure_servers_running, run_tests, cleanup ------- *)
\* for port in [8000, 8001, 8080]
EsrPorts == <<8000, 8001, 8080>>

\* f"http://localhost:{port}"
BaseUrl(port) == "http://localhost:" \o ToString(port)

\* send_prompt(..., max_retries=3)
DefaultMaxRetries == 3

\* most rows of the Excel file
MaxRows == 1

BoolStr(b) == IF b THEN "True" ELSE "False"

\* the frames under the innermost method of the tester in progress
Callers == SubSeq(tester.frames, 1, Len(tester.frames) - 1)

\* ensure_servers_running returns to the frames fr with the tester fields t
EsrReturn(value, t, fr) ==
  /\ op' = "none"
  /\ pc' = "done"
  /\ cur' = NoCur
  /\ ret' = [NoRet EXCEPT !.op = "ensure_servers_running", !.status = "ok",
                          !.value = value, !.esr = t.esr]
  /\ tester' = [t EXCEPT !.frames = fr, !.esr = NoEsr]

\* lines 31-56, on the tester fields t with the frames fr under the call:
\* the test of the configured base, the probes of the three ports up to the
\* first 200 answer, and the call of start_full_stack when all have failed
EnsureBody(t, fr) ==
  /\ \E resp \in ApiResponses, hit \in 0..Len(EsrPorts) :
       LET tested == t.api_base # "None"
           ok == ApiConnectionOk(resp)
           t0 == [t EXCEPT
                    !.available_models = IF ok THEN resp.data ELSE @,
                    !.esr = [NoEsr EXCEPT
                               !.base = IF ~tested THEN "unset"
                                        ELSE IF ok THEN "ok" ELSE "failed",
                               !.answered =
                                 IF tested /\ resp.kind = "response" /\ resp.status = 200
                                 THEN {t.api_base} ELSE {}]]
           \* hit: the first of the three ports whose probe is answered 200
           \* (0: none; the others end with another status or an exception)
           made == IF hit = 0 THEN Len(EsrPorts) ELSE hit
           probes == [k \in 1..made |-> k = hit]
       IN IF ~t.auto_start_servers THEN /\ EsrReturn(BoolStr(ok), t0, fr)
                                        /\ UNCHANGED <<sd, fs>>
          ELSE IF ok THEN /\ EsrReturn("True", t0, fr)
                          /\ UNCHANGED <<sd, fs>>
          ELSE IF hit # 0
          THEN /\ EsrReturn("True",
                            [t0 EXCEPT !.api_base = BaseUrl(EsrPorts[made]),
                                       !.esr.probes = probes,
                                       !.esr.answered = @ \cup {BaseUrl(EsrPorts[made])}],
                            fr)
               /\ UNCHANGED <<sd, fs>>
          ELSE /\ Room(3)
               /\ op' = "full"
               /\ pc' = "cleanup"
               /\ cur' = [NoCur EXCEPT !.model = CHOOSE m \in Models : TRUE]
               /\ tester' = [t0 EXCEPT !.frames = Append(fr, "ensure_servers_running"),
                                       !.esr.probes = probes, !.esr.started = TRUE]
               /\ UNCHANGED <<ret, sd, fs>>
  /\ UNCHANGED <<processes, running_ports, procs, ext, host, peer>>

call_ensure_servers_running ==
  /\ pc = "idle"
  /\ tester.frames = <<>>
  /\ EnsureBody(tester, <<>>)

\* variant: the API is taken to be up once start_full_stack has returned
ensure_servers_running_started_untested ==
  /\ pc = "done"
  /\ ret.op = "full"
  /\ tester.frames # <<>>
  /\ tester.frames[Len(tester.frames)] = "ensure_servers_running"
  /\ IF ret.status = "raised"
     THEN EsrReturn("False", tester, Callers)
     ELSE EsrReturn("True", [tester EXCEPT !.api_base = BaseUrl(ret.map.api)], Callers)
  /\ sd' = <<>>
  /\ fs' = NoFs
  /\ UNCHANGED <<processes, running_ports, procs, ext, host, peer>>

\* lines 57-68: start_full_stack has returned its ports, and the new base
\* is tested; or it has raised, and the call returns False
ensure_servers_running_started ==
  /\ pc = "done"
  /\ ret.op = "full"
  /\ tester.frames # <<>>
  /\ tester.frames[Len(tester.frames)] = "ensure_servers_running"
  /\ \E resp \in ApiResponses :
       IF ret.status = "raised"
       THEN EsrReturn("False", tester, Callers)
       ELSE LET base == BaseUrl(ret.map.api)
                ok == resp.kind = "response" /\ resp.status = 200 /\ ModelsParse(resp)
            IN EsrReturn(BoolStr(ok),
                         [tester EXCEPT
                            !.api_base = base,
                            !.available_models = IF ok THEN resp.data ELSE @,
                            !.esr.answered =
                              IF resp.kind = "response" /\ resp.status = 200
                              THEN @ \cup {base} ELSE @],
                         Callers)
  /\ sd' = <<>>
  /\ fs' = NoFs
  /\ UNCHANGED <<processes, running_ports, procs, ext, host, peer>>

\* run_tests returns
RunTestsReturn(value) ==
  /\ pc' = "done"
  /\ ret' = [NoRet EXCEPT !.op = "run_tests", !.status = "ok", !.value = value]
  /\ tester' = [tester EXCEPT !.frames = <<>>, !.rows = 0]
  /\ UNCHANGED <<processes, running_ports, procs, ext, op, cur, sd, fs, host, peer>>

\* lines 192-196: load_prompts reads the file or fails; with the rows
\* loaded, ensure_servers_running is called
call_run_tests ==
  /\ pc = "idle"
  /\ tester.frames = <<>>
  /\ \E loaded \in BOOLEAN, n \in 0..MaxRows :
       IF ~loaded
       THEN n = 0 /\ RunTestsReturn("False")
       ELSE EnsureBody([tester EXCEPT !.rows = n], <<"run_tests">>)

\* lines 196-202: False when the servers are not there, otherwise the loop
\* over the rows begins
run_tests_ensured ==
  /\ pc = "done"
  /\ ret.op = "ensure_servers_running"
  /\ tester.frames = <<"run_tests">>
  /\ IF ret.value = "False"
     THEN RunTestsReturn("False")
     ELSE /\ pc' = "idle"
          /\ ret' = NoRet
          /\ UNCHANGED <<processes, running_ports, procs, ext, op, cur, sd, fs,
                         tester, host, peer>>

\* lines 209-234: a row without a user prompt is skipped, for any other
\* send_prompt is called with the row's model name
run_tests_row ==
  /\ tester.frames = <<"run_tests">>
  /\ tester.rows > 0
  /\ \/ /\ pc = "idle"
        /\ tester' = [tester EXCEPT !.rows = @ - 1]
        /\ UNCHANGED <<processes, running_ports, procs, ext, op, pc, cur, sd, fs,
                       ret, host, peer>>
     \/ \E model_name \in ModelArgs : call_send_prompt(model_name, DefaultMaxRetries)

\* lines 236-266: the result of the row is stored
run_tests_row_done ==
  /\ pc = "done"
  /\ ret.op = "send_prompt"
  /\ tester.frames = <<"run_tests">>
  /\ pc' = "idle"
  /\ ret' = NoRet
  /\ tester' = [tester EXCEPT !.rows = @ - 1]
  /\ UNCHANGED <<processes, running_ports, procs, ext, op, cur, sd, fs, host, peer>>

\* lines 268-269
run_tests_return ==
  /\ pc = "idle"
  /\ tester.frames = <<"run_tests">>
  /\ tester.rows = 0
  /\ RunTestsReturn("True")

\* cleanup: stop_all_servers of the tester's ServerManager, when it has one
call_cleanup ==
  /\ tester.frames = <<>>
  /\ IF tester.auto_start_servers
     THEN call_stop_all_servers
     ELSE /\ pc = "idle"
          /\ pc' = "done"
          /\ ret' = [NoRet EXCEPT !.op = "cleanup", !.status = "ok"]
          /\ UNCHANGED <<processes, running_ports, procs, ext, op, cur, sd, fs,
                         tester, host, peer>>

(* ---------------------- check_worker_registered ------------------------ *)
\* most identifiers in the "models" list of a /list_models answer
MaxListed == 2

\* model identifiers, as the sequence of their parts:
\* "vicuna-7b", "vicuna-7b-v1.5", "lmsys/vicuna-7b-v1.5"
ModelNames ==
  {<<"vicuna-7b">>, <<"vicuna-7b", "-v1.5">>, <<"lmsys/", "vicuna-7b", "-v1.5">>}

ModelLists == UNION {[1..k -> ModelNames] : k \in 0..MaxListed}

\* Python's "a in b" for two strings: a occurs in b as a substring
StrIn(a, b) ==
  \E i \in 0..(Len(b) - Len(a)) : SubSeq(b, i + 1, i + Len(a)) = a

\* any(model_name in model for model in models)
AnyModelContains(model_name, models) ==
  \E k \in 1..Len(models) : StrIn(model_name, models[k])

\* what requests.post(.../list_models, timeout=5) can end with: a
\* RequestException, or a response whose body is not JSON, a JSON array, a
\* JSON object without "models", or a JSON object with a "models" list
RegistryResponses ==
  {[kind |-> k, status |-> 0, body |-> "none", data |-> <<>>] :
     k \in {"ConnectionError", "Timeout"}}
  \cup {[kind |-> "response", status |-> s, body |-> b, data |-> <<>>] :
          s \in StatusCodes, b \in {"not_json", "array", "object_no_models"}}
  \cup {[kind |-> "response", status |-> s, body |-> "object", data |-> d] :
          s \in StatusCodes, d \in ModelLists}

\* The whole method.  Only RequestException is caught: a 200 answer whose
\* body is a JSON array makes .get raise AttributeError; one that is not
\* JSON makes response.json() raise an exception that is a RequestException
\* in some versions of requests and a plain ValueError in others.
check_worker_registered_on(model_name, resp) ==
  /\ pc = "idle"
  /\ LET r == [NoRet EXCEPT !.op = "check_worker_registered", !.status = "ok",
                            !.name = model_name, !.resp = resp]
     IN IF resp.kind # "response" \/ resp.status # 200
        THEN ret' = [r EXCEPT !.value = "False"]
        ELSE IF resp.body = "array"
        THEN ret' = [r EXCEPT !.status = "raised", !.err = "AttributeError"]
        ELSE IF resp.body = "not_json"
        THEN \/ ret' = [r EXCEPT !.value = "False"]
             \/ ret' = [r EXCEPT !.status = "raised", !.err = "ValueError"]
        ELSE ret' = [r EXCEPT !.value =
                       IF AnyModelContains(model_name, resp.data)
                       THEN "True" ELSE "False"]
  /\ pc' = "done"
  /\ UNCHANGED <<processes, running_ports, procs, ext, op, cur, sd, fs, tester,
                 host, peer>>

(* ------------- is_port_free, is_service_running, get_api_server_port --- *)
\* the whole method, called by itself: connect_ex tells whether the port
\* has a listener; any exception of the socket calls gives False
call_is_port_free(port) ==
  /\ pc = "idle"
  /\ \E failed \in BOOLEAN :
       ret' = [NoRet EXCEPT !.op = "is_port_free", !.status = "ok", !.port = port,
                 !.value = IF ~failed /\ is_port_free(port) THEN "True" ELSE "False"]
  /\ pc' = "done"
  /\ UNCHANGED <<processes, running_ports, procs, ext, op, cur, sd, fs, tester,
                 host, peer>>

Endpoints == {"list_models", "v1_models"}

\* the whole method, called by itself: one GET, True on a 200 answer
call_is_service_running(port, endpoint) ==
  /\ pc = "idle"
  /\ ret' = [NoRet EXCEPT !.op = "is_service_running", !.status = "ok",
               !.port = port, !.name = <<endpoint>>,
               !.value = IF is_service_running(port, endpoint) THEN "True" ELSE "False"]
  /\ pc' = "done"
  /\ UNCHANGED <<processes, running_ports, procs, ext, op, cur, sd, fs, tester,
                 host, peer>>

\* for port in self.running_ports: if is_service_running(.../v1/models): return port
RECURSIVE get_api_server_port(_)
get_api_server_port(ports) ==
  IF ports = <<>> THEN NoPort
  ELSE IF is_service_running(Head(ports), "v1_models") THEN Head(ports)
  ELSE get_api_server_port(Tail(ports))

\* variant: the ports that did not answer are dropped from the pool
call_get_api_server_port_pruning ==
  /\ pc = "idle"
  /\ ret' = [NoRet EXCEPT !.op = "get_api_server_port", !.status = "ok",
               !.port = get_api_server_port(running_ports)]
  /\ pc' = "done"
  /\ running_ports' = SelectSeq(running_ports, LAMBDA p : is_service_running(p, "v1_models"))
  /\ UNCHANGED <<processes, procs, ext, op, cur, sd, fs, tester, host, peer>>

\* the whole method; None is NoPort
call_get_api_server_port ==
  /\ pc = "idle"
  /\ ret' = [NoRet EXCEPT !.op = "get_api_server_port", !.status = "ok",
               !.port = get_api_server_port(running_ports)]
  /\ pc' = "done"
  /\ UNCHANGED <<processes, running_ports, procs, ext, op, cur, sd, fs, tester,
                 host, peer>>

(* -------------------------------- Next --------------------------------- *)
ProcEnv ==
  \/ \E i \in Pids : ProcUp(i)
  \/ \E i \in Pids : ProcExit(i)
  \/ \E i \in Pids : ProcRegister(i)

\* The stack: start_full_stack, stop_all_servers and the sweep, with the
\* launched processes and single foreign listeners as the environment.
Next ==
  \/ ProcEnv
  \/ ExtBind(ControllerBase)
  \/ ExtReleaseAll
  \/ \E m \in Models : call_start_full_stack(m)
  \/ call_stop_all_servers
  \/ call_cleanup_existing_servers
  \/ Return
  \/ cleanup_existing_servers
  \/ start_controller_launch
  \/ start_controller_wait
  \/ start_model_worker_launch
  \/ start_model_worker_check
  \/ start_openai_api_server_launch
  \/ start_openai_api_server_wait
  \/ stop_terminate
  \/ stop_wait
  \/ stop_kill
  \/ stop_killwait
  \/ stop_clear

Spec == Init /\ [][Next]_vars

\* The orchestrator is a running thread: a statement that can execute does
\* execute.  Nothing forces a process of the environment to start or exit.
OrchestratorStep ==
  \/ cleanup_existing_servers
  \/ start_controller_launch
  \/ start_controller_wait
  \/ start_model_worker_launch
  \/ start_model_worker_check
  \/ start_openai_api_server_launch
  \/ start_openai_api_server_wait
  \/ stop_terminate
  \/ stop_wait
  \/ stop_kill
  \/ stop_killwait
  \/ stop_clear

SpecLive == Init /\ [][Next]_vars /\ WF_vars(OrchestratorStep)

\* Port discovery: the orchestrator is constructed on a host whose other
\* programs already hold some ports; find_free_port is called on its own and
\* by the start methods of start_full_stack.
InitScan ==
  /\ processes = <<>>
  /\ running_ports = <<>>
  /\ procs = [i \in 1..MaxProcs |-> Gone]
  /\ ext \in ExtConfigs
  /\ op = "none"
  /\ pc = "idle"
  /\ cur = NoCur
  /\ sd = <<>>
  /\ fs = NoFs
  /\ ret = NoRet
  /\ tester = NoTester
  /\ host = <<>>
  /\ peer = NoPeer

NextScan ==
  \/ ProcEnv
  \/ \E s \in StartPorts, m \in AttemptArgs : call_find_free_port(s, m)
  \/ \E m \in Models : call_start_full_stack(m)
  \/ call_stop_all_servers
  \/ Return
  \/ cleanup_existing_servers
  \/ start_controller_launch
  \/ start_controller_wait
  \/ start_model_worker_launch
  \/ start_model_worker_check
  \/ start_openai_api_server_launch
  \/ start_openai_api_server_wait
  \/ stop_terminate
  \/ stop_wait
  \/ stop_kill
  \/ stop_killwait
  \/ stop_clear

SpecScan == InitScan /\ [][NextScan]_vars

\* The start methods called on their own, in any order.
NextDirect ==
  \/ ProcEnv
  \/ call_start_controller
  \/ \E m \in Models, w \in WorkerIdArgs : call_start_model_worker(m, w)
  \/ call_start_openai_api_server
  \/ call_stop_all_servers
  \/ Return
  \/ start_controller_launch
  \/ start_controller_wait
  \/ start_model_worker_launch
  \/ start_model_worker_check
  \/ start_openai_api_server_launch
  \/ start_openai_api_server_wait
  \/ stop_terminate
  \/ stop_wait
  \/ stop_kill
  \/ stop_killwait
  \/ stop_clear

SpecDirect == Init /\ [][NextDirect]_vars

\* An LLMTester constructed with or without an API base, whose
\* test_api_connection is called against any answer of the API.
InitTester ==
  /\ processes = <<>>
  /\ running_ports = <<>>
  /\ procs = [i \in 1..MaxProcs |-> Gone]
  /\ ext = {}
  /\ op = "none"
  /\ pc = "idle"
  /\ cur = NoCur
  /\ sd = <<>>
  /\ fs = NoFs
  /\ ret = NoRet
  /\ tester \in {[NoTester EXCEPT !.api_base = b] : b \in ApiBases}
  /\ host = <<>>
  /\ peer = NoPeer

NextTester ==
  \/ \E resp \in ApiResponses : test_api_connection(resp)
  \/ Return

SpecTester == InitTester /\ [][NextTester]_vars

\* send_prompt called with any model name and retry count on a tester whose
\* model list comes from earlier test_api_connection calls, against any
\* answers of the API.
NextPrompt ==
  \/ \E resp \in ApiResponses : test_api_connection(resp)
  \/ \E model_name \in ModelArgs, max_retries \in RetryArgs :
       call_send_prompt(model_name, max_retries)
  \/ send_prompt_attempt
  \/ send_prompt_exhausted
  \/ Return

SpecPrompt == InitTester /\ [][NextPrompt]_vars

\* An LLMTester with or without automatic server management, on which
\* ensure_servers_running, run_tests and cleanup are called in any order,
\* against any answers of the API; the processes its ServerManager launches
\* are the environment; they keep their state while a prompt is being sent.
InitAuto ==
  /\ processes = <<>>
  /\ running_ports = <<>>
  /\ procs = [i \in 1..MaxProcs |-> Gone]
  /\ ext = {}
  /\ op = "none"
  /\ pc = "idle"
  /\ cur = NoCur
  /\ sd = <<>>
  /\ fs = NoFs
  /\ ret = NoRet
  /\ tester \in {[NoTester EXCEPT !.api_base = b, !.auto_start_servers = a] :
                   b \in ApiBases, a \in BOOLEAN}
  /\ host = <<>>
  /\ peer = NoPeer

NextAuto ==
  \/ (pc # "sp_loop" /\ ProcEnv)
  \/ call_ensure_servers_running
  \/ call_run_tests
  \/ call_cleanup
  \/ (tester.frames = <<>> /\ Return)
  \/ ensure_servers_running_started
  \/ run_tests_ensured
  \/ run_tests_row
  \/ run_tests_row_done
  \/ run_tests_return
  \/ send_prompt_attempt
  \/ send_prompt_exhausted
  \/ cleanup_existing_servers
  \/ start_controller_launch
  \/ start_controller_wait
  \/ start_model_worker_launch
  \/ start_model_worker_check
  \/ start_openai_api_server_launch
  \/ start_openai_api_server_wait
  \/ stop_terminate
  \/ stop_wait
  \/ stop_kill
  \/ stop_killwait
  \/ stop_clear

SpecAuto == InitAuto /\ [][NextAuto]_vars

\* wait_for_service called on its own, against any sequence of probe outcomes.
NextWait ==
  \/ \E t \in WaitTimeoutArgs : call_wait_for_service(t)
  \/ wait_for_service_probe
  \/ wait_for_service_expire
  \/ Return

SpecWait == Init /\ [][NextWait]_vars

\* get_status called between start_full_stack calls, against any answers to
\* its probes.
NextStatus ==
  \/ ProcEnv
  \/ \E m \in Models : call_start_full_stack(m)
  \/ call_get_status
  \/ Return
  \/ cleanup_existing_servers
  \/ start_controller_launch
  \/ start_controller_wait
  \/ start_model_worker_launch
  \/ start_model_worker_check
  \/ start_openai_api_server_launch
  \/ start_openai_api_server_wait
  \/ stop_terminate
  \/ stop_wait
  \/ stop_kill
  \/ stop_killwait
  \/ stop_clear
  \/ get_status_probe
  \/ get_status_return

SpecStatus == Init /\ [][NextStatus]_vars

\* get_status called on the stacks start_full_stack brought up, its probes
\* answered by the processes; they keep their state while it walks the pool.
NextHealth ==
  \/ (pc # "gs_loop" /\ ProcEnv)
  \/ \E m \in Models : call_start_full_stack(m)
  \/ call_get_status
  \/ Return
  \/ cleanup_existing_servers
  \/ start_controller_launch
  \/ start_controller_wait
  \/ start_model_worker_launch
  \/ start_model_worker_check
  \/ start_openai_api_server_launch
  \/ start_openai_api_server_wait
  \/ stop_terminate
  \/ stop_wait
  \/ stop_kill
  \/ stop_killwait
  \/ stop_clear
  \/ get_status_probe_answered
  \/ get_status_return

SpecHealth == Init /\ [][NextHealth]_vars

\* The query methods called between start_full_stack calls, on whatever the
\* stack has become.
NextQuery ==
  \/ ProcEnv
  \/ ExtBind(OpenaiApiBase)
  \/ ExtReleaseAll
  \/ \E m \in Models : call_start_full_stack(m)
  \/ Return
  \/ cleanup_existing_servers
  \/ start_controller_launch
  \/ start_controller_wait
  \/ start_model_worker_launch
  \/ start_model_worker_check
  \/ start_openai_api_server_launch
  \/ start_openai_api_server_wait
  \/ stop_terminate
  \/ stop_wait
  \/ stop_kill
  \/ stop_killwait
  \/ stop_clear
  \/ \E s \in StartPorts, n \in AttemptArgs : call_find_free_port(s, n)
  \/ \E p \in RoleBases : call_is_port_free(p)
  \/ \E t \in WaitTimeoutArgs : call_wait_for_service(t)
  \/ wait_for_service_probe
  \/ wait_for_service_expire
  \/ \E p \in RoleBases, e \in Endpoints : call_is_service_running(p, e)
  \/ \E model_name \in ModelNames, resp \in RegistryResponses :
       check_worker_registered_on(model_name, resp)
  \/ call_get_api_server_port
  \/ call_get_status
  \/ get_status_probe
  \/ get_status_return

SpecQuery == Init /\ [][NextQuery]_vars

\* The start methods called by themselves and through start_full_stack on
\* the same instance, with stop_all_servers in between.
NextStart ==
  \/ ProcEnv
  \/ call_start_controller
  \/ \E m \in Models : call_start_model_worker(m, "None")
  \/ call_start_openai_api_server
  \/ \E m \in Models : call_start_full_stack(m)
  \/ call_stop_all_servers
  \/ Return
  \/ cleanup_existing_servers
  \/ start_controller_launch
  \/ start_controller_wait
  \/ start_model_worker_launch
  \/ start_model_worker_check
  \/ start_openai_api_server_launch
  \/ start_openai_api_server_wait
  \/ stop_terminate
  \/ stop_wait
  \/ stop_kill
  \/ stop_killwait
  \/ stop_clear

SpecStart == Init /\ [][NextStart]_vars

\* The sweeps on a host that runs other processes: any command lines, any
\* connections, any reaction to being killed.
InitSweep ==
  /\ processes = <<>>
  /\ running_ports = <<>>
  /\ procs = [i \in 1..MaxProcs |-> Gone]
  /\ ext = {}
  /\ op = "none"
  /\ pc = "idle"
  /\ cur = NoCur
  /\ sd = <<>>
  /\ fs = NoFs
  /\ ret = NoRet
  /\ tester = NoTester
  /\ host \in [1..MaxHost -> HostProcs]
  /\ peer = NoPeer

NextSweep ==
  \/ \E port \in HostPorts : kill_processes_on_port(port)
  \/ cleanup_existing_servers_sweep
  \/ Return

SpecSweep == InitSweep /\ [][NextSweep]_vars

\* Two instances on one host, each calling cleanup_existing_servers and
\* start_controller, their steps interleaved in any order.
NextPair ==
  \/ \E i \in Pids : ProcUp(i)
  \/ \E i \in Pids : ProcExit(i)
  \/ (Cardinality(FreeSlots) > (IF peer.pc = "ctl_launch" THEN 1 ELSE 0)
        /\ call_start_controller)
  \/ call_cleanup_existing_servers
  \/ Return
  \/ cleanup_existing_servers
  \/ start_controller_launch
  \/ start_controller_wait
  \/ peer_call_start_controller
  \/ peer_call_cleanup_existing_servers
  \/ peer_cleanup_existing_servers
  \/ peer_start_controller_launch
  \/ peer_start_controller_wait

InitPair ==
  /\ processes = <<>>
  /\ running_ports = <<>>
  /\ procs = [i \in 1..(MaxProcs - 1) |-> Gone]
  /\ ext = {}
  /\ op = "none"
  /\ pc = "idle"
  /\ cur = NoCur
  /\ sd = <<>>
  /\ fs = NoFs
  /\ ret = NoRet
  /\ tester = NoTester
  /\ host = <<>>
  /\ peer = NoPeer

SpecPair == InitPair /\ [][NextPair]_vars

\* check_worker_registered called for any model name against any answer of
\* the controller.
NextRegistered ==
  \/ \E model_name \in ModelNames, resp \in RegistryResponses :
       check_worker_registered_on(model_name, resp)
  \/ Return

SpecRegistered == Init /\ [][NextRegistered]_vars

\* start_full_stack on an instance whose table may already hold a controller
\* started by an earlier start_controller call.
InitRestack ==
  /\ processes = <<>>
  /\ running_ports = <<>>
  /\ procs = [i \in 1..(MaxProcs + 1) |-> Gone]
  /\ ext = {}
  /\ op = "none"
  /\ pc = "idle"
  /\ cur = NoCur
  /\ sd = <<>>
  /\ fs = NoFs
  /\ ret = NoRet
  /\ tester = NoTester
  /\ host = <<>>
  /\ peer = NoPeer

NextRestack ==
  \/ ProcEnv
  \/ (processes = <<>> /\ call_start_controller)
  \/ \E m \in Models : call_start_full_stack(m)
  \/ Return
  \/ cleanup_existing_servers
  \/ start_controller_launch
  \/ start_controller_wait
  \/ start_model_worker_launch
  \/ start_model_worker_check
  \/ start_openai_api_server_launch
  \/ start_openai_api_server_wait
  \/ stop_terminate
  \/ stop_wait
  \/ stop_kill
  \/ stop_killwait
  \/ stop_clear

SpecRestack == InitRestack /\ [][NextRestack]_vars

(* ------------------------------- claims -------------------------------- *)
\* the public method o has just returned or raised
AtReturn(o) == pc = "done" /\ ret.op = o

\* stop_all_servers has just finished, called directly or by the except
\* block of start_full_stack
StopFinished == AtReturn("stop") \/ (AtReturn("full") /\ ret.status = "raised")

ScanRange(start_port, max_attempts) == start_port..(start_port + max_attempts - 1)

LaunchPcs == {"ctl_launch", "wk_launch", "api_launch"}

RoleAt(at) ==
  CASE at = "ctl_launch" -> "controller"
    [] at = "wk_launch" -> "model_worker"
    [] at = "api_launch" -> "openai_api"
    [] OTHER -> "none"

BaseAt(at) ==
  CASE at = "ctl_launch" -> base_ports.controller
    [] at = "wk_launch" -> base_ports.model_worker_base
    [] OTHER -> base_ports.openai_api

\* C1: when some port of [start, start+max_attempts) is free, find_free_port
\* returns the lowest free port of that range: the port is in the range, no
\* listener accepts connections on it, and every lower port of the range is
\* occupied; a returned port never has a live listener.
C1_LowestFreePort ==
  AtReturn("find_free_port") =>
    LET range == ScanRange(ret.start, ret.max)
        free == range \ Busy
    IN /\ free # {} =>
            /\ ret.status = "ok"
            /\ ret.port \in free
            /\ \A q \in range : q < ret.port => q \in Busy
       /\ ret.status = "ok" => ret.port \in free

C1_Witness ==
  AtReturn("find_free_port") /\ ret.status = "ok" /\ ret.port > ret.start

\* C2 (state part): a scan over a range whose ports are all occupied raises
\* the no-free-port error and yields no port; a startup step that failed
\* with that error did not launch its role's process.
C2_Exhausted ==
  /\ (AtReturn("find_free_port") /\ ScanRange(ret.start, ret.max) \subseteq Busy) =>
       (ret.status = "raised" /\ ret.err = "NoFreePort" /\ ret.port = NoPort)
  /\ fs.err = "NoFreePort" => (fs.at \in LaunchPcs /\ RoleAt(fs.at) \notin fs.roles)

\* C2 (step part): a launch step taken while its whole scan range is occupied
\* launches nothing, records nothing and raises the no-free-port error.
C2_AbortStep ==
  (pc \in LaunchPcs /\ pc' # pc /\ RangeOf(BaseAt(pc)) \subseteq Busy) =>
    /\ UNCHANGED <<processes, running_ports, procs>>
    /\ IF op = "full"
       THEN pc' = "stop_loop" /\ fs'.err = "NoFreePort" /\ fs'.at = pc
       ELSE pc' = "done" /\ ret'.status = "raised" /\ ret'.err = "NoFreePort"

\* C2: when every port of [start, start+max_attempts) is occupied,
\* find_free_port fails with the no-free-port error, and the failure aborts
\* the startup step that called it without launching that role's process.
C2_NoFreePortAborts == []C2_Exhausted /\ [][C2_AbortStep]_vars

C2_Witness == op = "full" /\ fs.err = "NoFreePort" /\ fs.at = "api_launch"

TrackedControllerAnswers ==
  \E k \in 1..Len(running_ports) : ServesListModels(running_ports[k])

C3_LaunchStep ==
  /\ \A i \in Slots :
       (procs[i].st = "gone" /\ procs'[i].role \in {"model_worker", "openai_api"}) =>
         /\ pc \in {"wk_launch", "api_launch"}
         /\ \E k \in 1..Len(running_ports) :
              /\ ServesListModels(running_ports[k])
              /\ procs'[i].ctl = running_ports[k]
  /\ (pc \in {"wk_launch", "api_launch"} /\ pc' # pc /\ ~TrackedControllerAnswers) =>
       /\ UNCHANGED <<processes, running_ports, procs>>
       /\ IF op = "full"
          THEN pc' = "stop_loop" /\ fs'.err # "none" /\ fs'.at = pc
          ELSE pc' = "done" /\ ret'.status = "raised"

\* C3: a worker or an API-server process is launched only by a launch step
\* in which GET /list_models on a tracked port was just answered 200 (and it
\* is given that port as its controller); when no tracked port answers, the
\* launch step raises and launches nothing.
C3_DependsOnHealthyController == [][C3_LaunchStep]_vars

C3_Witness ==
  op = "full" /\ fs.err = "ControllerNotRunning" /\ "model_worker" \in fs.roles

\* C4: when start_full_stack exits with an error raised after the cleanup,
\* the process table and the port pool are empty and terminate() has been
\* called on every process launched during the call.
C4_TeardownBeforeFailure ==
  (AtReturn("full") /\ ret.status = "raised" /\ fs.at # "cleanup") =>
    /\ processes = <<>>
    /\ running_ports = <<>>
    /\ \A p \in fs.launched :
         \E k \in 1..Len(sd) : sd[k].proc = p /\ sd[k].term # "none"

\* C5: when the controller's health wait timed out, start_full_stack raises
\* that startup error, has launched neither a worker nor the API server, and
\* leaves no managed process in the table.
C5_ControllerTimeout ==
  (AtReturn("full") /\ fs.err = "ControllerFailed") =>
    /\ ret.status = "raised"
    /\ ret.err = "ControllerFailed"
    /\ fs.roles \cap {"model_worker", "openai_api"} = {}
    /\ processes = <<>>

\* C6: a worker that is not registered after the grace period is not a
\* failure: the only failures after the warning come from the API-server
\* stage, and when the API server's health is confirmed start_full_stack
\* returns the port map with the warning recorded, the worker still tracked,
\* no process stopped, and the worker's allocated port in the map.
C6_RegistrationNotFatal ==
  /\ (fs.warned /\ fs.err # "none") => fs.at \in {"api_launch", "api_wait"}
  /\ (AtReturn("full") /\ fs.warned /\ "openai_api" \in fs.healthy) =>
       /\ ret.status = "ok"
       /\ ret.warned
       /\ "openai_api" \in fs.roles
       /\ \A k \in 1..Len(sd) : sd[k].term = "none"
       /\ \E w \in fs.launched :
            /\ procs[w].role = "model_worker"
            /\ w \in Tracked(processes)
            /\ ret.map.worker = procs[w].port
  /\ (AtReturn("full") /\ ret.status = "ok") =>
       \E w \in fs.launched :
         procs[w].role = "model_worker" /\ ret.map.worker = procs[w].port

C6_Witness == AtReturn("full") /\ ret.status = "ok" /\ ret.warned

\* C7: whenever stop_all_servers finishes, the process table and the port
\* pool are empty.
C7_StopClearsBookkeeping ==
  StopFinished => (processes = <<>> /\ running_ports = <<>>)

\* C8: stop_all_servers never propagates an exception to its caller.
C8_StopNeverRaises ==
  /\ AtReturn("stop") => ret.status = "ok"
  /\ AtReturn("full") => ret.err # "KillError"

\* C9: during stop_all_servers terminate() is called on every process of the
\* table, whatever happened while stopping the earlier ones.
C9_EveryProcessTerminated ==
  StopFinished => \A k \in 1..Len(sd) : sd[k].term # "none"

\* C10: for each tracked process the forced kill is sent only after
\* terminate() returned and the 5 second wait timed out, it is sent whenever
\* that wait timed out, and a process that exited within the wait is not
\* force-killed.
C10_KillOnlyAfterTimeout ==
  \A k \in 1..Len(sd) :
    /\ sd[k].kill # "none" => (sd[k].term = "ok" /\ sd[k].wait = "timeout")
    /\ (sd[k].wait = "timeout" /\ ~(pc = "stop_kill" /\ cur.i = k)) =>
         sd[k].kill # "none"
    /\ sd[k].wait = "exited" => sd[k].kill = "none"

C10_Witness ==
  \E k \in 1..Len(sd), j \in 1..Len(sd) :
    sd[k].kill = "ok" /\ sd[j].wait = "exited"

C11_Cleared ==
  (AtReturn("stop") /\ ret.status = "ok") =>
    (processes = <<>> /\ running_ports = <<>>)

C11_EmptyStopStep ==
  (op = "stop" /\ pc = "stop_loop" /\ processes = <<>>) =>
    /\ pc' = "done"
    /\ ret'.status = "ok"
    /\ sd' = <<>>
    /\ processes' = <<>>
    /\ running_ports' = <<>>
    /\ UNCHANGED <<running_ports, procs, ext>>

\* C11: stop_all_servers called on an empty process table returns without
\* raising in one step that calls terminate/kill on nothing, changes no OS
\* process and leaves the table and the pool empty; a stop that returned
\* leaves both empty, so a second stop in a row changes nothing.
C11_StopOnEmptyIsNoOp == []C11_Cleared /\ [][C11_EmptyStopStep]_vars

C11_Witness ==
  /\ AtReturn("stop")
  /\ ret.status = "ok"
  /\ sd = <<>>
  /\ \E i \in Pids : Alive(i)

C12_ReturnStep ==
  (/\ op = "stop" /\ pc = "stop_loop" /\ cur.i > Len(processes) /\ pc' = "done"
   /\ \A k \in 1..Len(sd) : sd[k].term = "ok") =>
    /\ processes' = <<>>
    /\ running_ports' = <<>>
    /\ \A k \in 1..Len(running_ports) :
         \A i \in DOMAIN procs' :
           ~(procs'[i].st = "up" /\ procs'[i].port = running_ports[k])

\* C12: when stop_all_servers returns after stopping every tracked process
\* without an error, the table and the pool are empty and no process launched
\* by the instance still listens on a port that was in the pool (the ports
\* allocated since the previous stop).
C12_PortsFreedAfterStop == [][C12_ReturnStep]_vars

\* C13: when start_full_stack returns successfully, the returned map holds
\* three non-zero, pairwise distinct ports, each within the 100 ports that
\* start at its role's base port.
C13_ThreeDistinctPorts ==
  (AtReturn("full") /\ ret.status = "ok") =>
    /\ ret.map.controller \in RangeOf(base_ports.controller)
    /\ ret.map.worker \in RangeOf(base_ports.model_worker_base)
    /\ ret.map.api \in RangeOf(base_ports.openai_api)
    /\ NoPort \notin {ret.map.controller, ret.map.worker, ret.map.api}
    /\ ret.map.controller # ret.map.worker
    /\ ret.map.controller # ret.map.api
    /\ ret.map.worker # ret.map.api

\* C14: no port is allocated to two managed processes: two entries of the
\* process table whose processes have not exited never hold the same port
\* (which also keeps the ports of the pool that belong to them distinct).
C14_NoDoubleAllocation ==
  \A j, k \in 1..Len(processes) :
    (/\ j # k
     /\ Alive(processes[j].proc)
     /\ Alive(processes[k].proc)) =>
      procs[processes[j].proc].port # procs[processes[k].proc].port

\* some process launched by the instance with this role accepts requests on port
RoleListensOn(role, port) ==
  \E i \in Pids : Listening(i) /\ procs[i].role = role /\ procs[i].port = port

\* C15: at the moment start_full_stack returns successfully, a health probe
\* of each returned port succeeds: the controller, the worker and the API
\* server each answer on the port the map gives for them.
C15_ReturnedPortsHealthy ==
  (AtReturn("full") /\ ret.status = "ok") =>
    /\ RoleListensOn("controller", ret.map.controller)
    /\ RoleListensOn("model_worker", ret.map.worker)
    /\ RoleListensOn("openai_api", ret.map.api)

\* seconds that had passed when probe number n of the log was sent
RECURSIVE SentAt(_, _)
SentAt(probes, n) ==
  IF n <= 1 THEN 0 ELSE SentAt(probes, n - 1) + ProbeCost(probes[n - 1])

C17_OnlyStartupErrorsAbort ==
  (AtReturn("full") /\ ret.status = "raised") =>
    fs.err \in {"NoFreePort", "ControllerFailed", "ApiFailed"}

\* C18: cleanup_existing_servers completes without raising whatever the
\* processes it finds do, called on its own or as the first step of
\* start_full_stack.
C18_CleanupNeverRaises ==
  /\ AtReturn("cleanup") => ret.status = "ok"
  /\ (AtReturn("full") /\ ret.status = "raised") => fs.at # "cleanup"

StopPcs == {"stop_loop", "stop_wait", "stop_kill", "stop_killwait"}

\* C19: stop_all_servers always returns: once its loop has been entered the
\* call eventually completes, whatever the tracked processes do.
C19_StopAlwaysReturns == (pc \in StopPcs) ~> (pc = "done")

C20_Result ==
  AtReturn("test_api_connection") =>
    /\ ret.status = "ok"
    /\ ret.value \in {"True", "False"}
    /\ (\/ tester.api_base = "None"
        \/ ret.resp.kind # "response"
        \/ ret.resp.status # 200) => ret.value = "False"
    /\ ret.value = "True" =>
         /\ ret.resp.kind = "response"
         /\ ret.resp.status = 200
         /\ tester.available_models = ret.resp.data

C20_ModelsStep ==
  /\ tester'.api_base = tester.api_base
  /\ tester'.available_models # tester.available_models =>
       (ret'.op = "test_api_connection" /\ ret'.value = "True")

\* C20: test_api_connection never raises; it returns False when no API base
\* is set, when the request fails and when the answer's status is not 200;
\* it returns True only after a 200 answer, and the list of available models
\* is replaced (by the ids of that answer) only when it returns True.
C20_ApiConnection == []C20_Result /\ [][C20_ModelsStep]_vars

C20_Witness ==
  /\ AtReturn("test_api_connection")
  /\ ret.value = "False"
  /\ ret.resp.kind = "response"
  /\ ret.resp.status = 200
  /\ tester.available_models # <<>>

\* the statement that follows pc in start_full_stack when nothing raises
FullSuccessor(at) ==
  CASE at = "cleanup" -> "ctl_launch"
    [] at = "ctl_launch" -> "ctl_wait"
    [] at = "ctl_wait" -> "wk_launch"
    [] at = "wk_launch" -> "wk_check"
    [] at = "wk_check" -> "api_launch"
    [] at = "api_launch" -> "api_wait"
    [] OTHER -> "done"

\* roles launched in this call whose health wait / registration check is
\* still to come or did not succeed
FullUnconfirmed ==
  ((fs.roles \cap {"controller", "openai_api"}) \ fs.healthy)
    \cup (IF pc = "wk_check" THEN {"model_worker"} ELSE {})

C21_Order ==
  /\ fs.roles \in {{}, {"controller"}, {"controller", "model_worker"},
                   {"controller", "model_worker", "openai_api"}}
  /\ fs.healthy \subseteq fs.roles
  /\ "model_worker" \in fs.roles => "controller" \in fs.healthy
  /\ "openai_api" \in fs.roles => pc \notin {"wk_launch", "wk_check"}
  /\ (op = "full" /\ pc = "cleanup") => fs.roles = {}
  /\ Cardinality(FullUnconfirmed) <= 1
  /\ (AtReturn("full") /\ ret.status = "ok") =>
       /\ fs.roles = {"controller", "model_worker", "openai_api"}
       /\ fs.healthy = {"controller", "openai_api"}

C21_Step ==
  (op = "full" /\ pc \notin StopPcs) =>
    /\ pc' \in {pc, FullSuccessor(pc), "stop_loop"}
    /\ pc' = "done" => ret'.status = "ok"
    /\ fs'.roles # fs.roles =>
         /\ pc \in LaunchPcs
         /\ fs'.roles = fs.roles \cup {RoleAt(pc)}
         /\ pc' = FullSuccessor(pc)
    /\ fs'.healthy # fs.healthy =>
         /\ pc \in {"ctl_wait", "api_wait"}
         /\ pc' = FullSuccessor(pc)
    /\ (pc \in {"ctl_wait", "api_wait"} /\ pc' = FullSuccessor(pc)) =>
         fs'.healthy # fs.healthy

\* C21: within one start_full_stack call the statements run in program order
\* and never interleave: cleanup, controller launch, controller health
\* confirmed, worker launch, registration check, API server launch, API
\* server health confirmed, return of the port map (or, from any of them,
\* the teardown); a role is launched only by its own launch step, after the
\* previous role was confirmed, and at most one role is being started.
C21_StartupOrder == []C21_Order /\ [][C21_Step]_vars

C21_Witness ==
  /\ op = "full"
  /\ pc = "api_wait"
  /\ fs.roles = {"controller", "model_worker", "openai_api"}
  /\ fs.healthy = {"controller"}

\* the slots in which this step creates a process
NewSlots == {i \in Slots : procs[i].st = "gone" /\ procs'[i].st = "starting"}

\* the wait / check that follows a launch statement of a start method
AfterLaunch(at) ==
  CASE at = "ctl_launch" -> "ctl_wait"
    [] at = "wk_launch" -> "wk_check"
    [] OTHER -> "api_wait"

C22_PoolStep ==
  /\ running_ports' # running_ports =>
       \/ /\ pc \in LaunchPcs
          /\ \E i \in NewSlots :
               /\ NewSlots = {i}
               /\ running_ports' = Append(running_ports, procs'[i].port)
       \/ /\ pc = "stop_loop"
          /\ cur.i > Len(processes)
          /\ running_ports' = <<>>
  /\ \A i \in NewSlots :
       /\ NewSlots = {i}
       /\ running_ports' = Append(running_ports, procs'[i].port)
       /\ processes'[Len(processes')].proc = i \/
            \E k \in 1..Len(processes) :
              processes'[k].proc = i /\ processes'[k].name = processes[k].name
  /\ (pc = "stop_loop" /\ pc' = "done") => running_ports' = <<>>
  /\ (pc \in LaunchPcs /\ pc' \notin {pc, AfterLaunch(pc)}) =>
       /\ NewSlots = {}
       /\ UNCHANGED <<processes, running_ports>>

\* C22: the port pool changes only by a launch step, which appends the port
\* of the one process it creates at the end of the pool, and by the final
\* step of stop_all_servers, which empties it; a launch step that raises
\* (no free port, controller not running) creates no process and leaves the
\* pool and the process table unchanged.
C22_PoolChanges == [][C22_PoolStep]_vars

C22_Witness ==
  /\ pc = "done"
  /\ ret.op \in {"worker", "openai_api"}
  /\ ret.err = "ControllerNotRunning"
  /\ Len(running_ports) = 2
  /\ running_ports[1] # running_ports[2]

\* the positions of the pool whose probe was answered 200 and whose port is
\* on the given side of the threshold
StatusHits(below) ==
  {k \in 1..Len(running_ports) :
     /\ k <= Len(ret.probes)
     /\ ret.probes[k] = "200"
     /\ (running_ports[k] < StatusThreshold) = below}

\* C23: get_status never raises and probes every port of the pool, in pool
\* order; it reports a port as 'openai_api' only if the port is in the
\* pool, its probe was answered 200 and it is below 10000, and as
\* 'controller' only if it is in the pool, its probe was answered 200 and it
\* is 10000 or above; a role for which no port qualifies is None, so a port
\* whose probes all failed is reported under no role.
C23_GetStatus ==
  AtReturn("get_status") =>
    /\ ret.status = "ok"
    /\ Len(ret.probes) = Len(running_ports)
    /\ ret.report.openai_api # NoPort =>
         \E k \in StatusHits(TRUE) : running_ports[k] = ret.report.openai_api
    /\ ret.report.controller # NoPort =>
         \E k \in StatusHits(FALSE) : running_ports[k] = ret.report.controller
    /\ StatusHits(TRUE) = {} => ret.report.openai_api = NoPort
    /\ StatusHits(FALSE) = {} => ret.report.controller = NoPort
    /\ ret.report.workers = <<>>

C23_Witness ==
  /\ AtReturn("get_status")
  /\ ret.report.openai_api # NoPort
  /\ ret.report.controller # NoPort
  /\ \E k \in 1..Len(ret.probes) : ret.probes[k] # "200"

\* C24: kill_processes_on_port never raises and calls kill() on every
\* process that holds a connection with the target local port: a process
\* that did not exit within its wait, had vanished or denied access does not
\* keep the later processes on the port from being killed.
C24_KillsEveryProcessOnPort ==
  AtReturn("kill_processes_on_port") =>
    /\ ret.status = "ok"
    /\ \A i \in DOMAIN host :
         (host[i].st = "run" /\ host[i].conn.port = ret.port) =>
           \E k \in 1..Len(ret.kills) : ret.kills[k].pid = i

\* the processes the entries k..Len(log) of a kill log removed
RemovedFrom(log, k) ==
  {log[m].pid : m \in {n \in k..Len(log) : log[n].outcome \in {"exits", "NoSuchProcess"}}}

\* the first entry of a kill log made for the port of entry k
FirstFor(log, k) ==
  CHOOSE m \in 1..k :
    log[m].port = log[k].port /\ \A n \in 1..(m - 1) : log[n].port # log[k].port

\* some process was accepting connections on the port of entry k when the
\* port was probed, that is before the first kill made for that port
OccupiedAt(log, k) ==
  \E j \in DOMAIN host :
    /\ host[j].conn = [port |-> log[k].port, listen |-> TRUE]
    /\ (host[j].st = "run" \/ j \in RemovedFrom(log, FirstFor(log, k)))

\* C25: the command-line sweep of cleanup_existing_servers calls kill() on a
\* process if and only if its command line contains 'fastchat' and one of
\* the role keywords; a process whose command line does not match is killed
\* by cleanup_existing_servers only in the port sweep, for a swept port on
\* which it holds a connection and which probed occupied.
C25_SweepKillsExactlyMatches ==
  AtReturn("cleanup_existing_servers") =>
    /\ \A i \in DOMAIN host :
         (host[i].st = "run" /\ CmdMatches(host[i].cmdline)) =>
           \E k \in 1..Len(ret.kills) :
             ret.kills[k].pid = i /\ ret.kills[k].port = NoPort
    /\ \A k \in 1..Len(ret.kills) :
         IF ret.kills[k].port = NoPort
         THEN CmdMatches(host[ret.kills[k].pid].cmdline)
         ELSE /\ ret.kills[k].port \in SweptPorts
              /\ host[ret.kills[k].pid].conn.port = ret.kills[k].port
              /\ OccupiedAt(ret.kills, k)

C26_LaunchStep ==
  \A i \in NewSlots :
    (op = "full" /\ procs'[i].role \in {"model_worker", "openai_api"}) =>
      /\ procs'[i].ctl = cur.cport
      /\ ServesListModels(procs'[i].ctl)

\* C26: in start_full_stack the controller address given to the worker and
\* to the API server at launch is the port start_controller returned in the
\* same call, whatever ports the pool still holds from earlier starts, and a
\* controller answers on that address in the state in which the launch is
\* made.
C26_BoundToConfirmedController == [][C26_LaunchStep]_vars

\* the table and the pool of the first / of the second instance
Book1 == <<processes, running_ports>>
Book2 == <<peer.processes, peer.running_ports>>

C27_Step ==
  /\ \A i \in NewSlots :
       /\ procs'[i].port = find_free_port(base_ports.controller, DefaultMaxAttempts)
       /\ \/ /\ pc = "ctl_launch"
             /\ running_ports' = Append(running_ports, procs'[i].port)
             /\ UNCHANGED peer
          \/ /\ peer.pc = "ctl_launch"
             /\ peer'.running_ports = Append(peer.running_ports, procs'[i].port)
             /\ UNCHANGED Book1
  /\ pc = "cleanup" /\ pc' # pc => UNCHANGED <<Book1, peer>>
  /\ peer.pc = "cleanup" /\ peer'.pc # peer.pc =>
       /\ UNCHANGED <<Book1, Book2>>
       /\ \A i \in Tracked(processes) : procs'[i].st # "gone"

\* C27: two instances are not serialized against each other.  A launch by
\* either instance allocates the lowest port of the range that no listener
\* holds at that moment, whatever the other instance's pool says, and changes
\* only its own table and pool; a cleanup by either instance changes no table
\* and no pool, also when it kills a process of the other instance.  So both
\* instances can hold the same port for a process of their own, and a table
\* can hold a process the other instance's cleanup has killed.
C27_NotSerialized == [][C27_Step]_vars

\* both instances have allocated the same port to a process of their table,
\* and the second instance's cleanup has killed a process that is still in
\* the first instance's table
C27_Witness ==
  /\ peer.collided
  /\ \E j \in 1..Len(processes), k \in 1..Len(peer.processes) :
       /\ processes[j].proc # peer.processes[k].proc
       /\ procs[processes[j].proc].port = procs[peer.processes[k].proc].port
       /\ procs[processes[j].proc].port # NoPort
       /\ procs[processes[j].proc].port \in
            {running_ports[n] : n \in 1..Len(running_ports)}
               \cap {peer.running_ports[n] : n \in 1..Len(peer.running_ports)}
  /\ \E i \in Tracked(processes) : i \in peer.swept /\ procs[i].st = "dead"

\* the answer is a 200 whose body carries a models list
ListAnswered ==
  ret.resp.kind = "response" /\ ret.resp.status = 200
    /\ ret.resp.body \in {"object", "object_no_models"}

\* the model name is one of the identifiers of the returned list
NameListed == \E k \in 1..Len(ret.resp.data) : ret.resp.data[k] = ret.name

\* C28: check_worker_registered returns True exactly when the query is
\* answered 200 and the model name is one of the identifiers of the returned
\* models list; it returns False when the query fails, when the status is not
\* 200 and when the name is not one of the listed identifiers.
C28_RegisteredIffListed ==
  AtReturn("check_worker_registered") =>
    /\ ret.value = "True" <=> (ListAnswered /\ NameListed)
    /\ (\/ ret.resp.kind # "response"
        \/ ret.resp.status # 200
        \/ (ListAnswered /\ ~NameListed)) => ret.value = "False"

\* C29: every call of start_full_stack eventually ends, by returning the
\* port map or by raising, whatever the launched processes do.
C29_FullStackEnds == (op = "full") ~> (pc = "done")

C30_Counts == Len(running_ports) = Len(processes)

C30_TableStep ==
  \A i \in Tracked(processes) \ Tracked(processes') :
    Alive(i) => (pc = "stop_loop" /\ processes' = <<>>)

\* C30: the pool holds as many ports as the table has entries, and a live
\* process leaves the table only when stop_all_servers clears it: no start
\* call replaces the table entry of a live process.
C30_NoLiveEntryReplaced == []C30_Counts /\ [][C30_TableStep]_vars

\* the port of the process the table holds under the name: the port the
\* start method that made the entry returned
TablePort(name) ==
  IF \E k \in 1..Len(processes) : processes[k].name = name
  THEN procs[processes[CHOOSE k \in 1..Len(processes) : processes[k].name = name].proc].port
  ELSE NoPort

\* the table's process of the name answers the endpoint its start method
\* waited for
HealthyEntry(name, endpoint) ==
  \E k \in 1..Len(processes) :
    /\ processes[k].name = name
    /\ Listening(processes[k].proc)
    /\ is_service_running(procs[processes[k].proc].port, endpoint)

\* C31: while the stack start_full_stack started is running with the
\* controller and the API server both healthy, get_status reports under
\* 'controller' the controller port start_full_stack returned and under
\* 'openai_api' the API port it returned; neither role is None.
C31_HealthyStackReported ==
  (/\ AtReturn("get_status")
   /\ HealthyEntry("controller", "list_models")
   /\ HealthyEntry("openai_api", "v1_models")) =>
    /\ ret.report.controller = TablePort("controller")
    /\ ret.report.openai_api = TablePort("openai_api")

QueryOps ==
  {"find_free_port", "is_port_free", "wait_for_service", "is_service_running",
   "check_worker_registered", "get_api_server_port", "get_status"}

\* a step of a query method: its call, one of its iterations, or its return
\* or raise
QueryStep ==
  /\ <<op, pc, cur, ret>>' # <<op, pc, cur, ret>>
  /\ \/ op \in QueryOps
     \/ op' \in QueryOps
     \/ ret'.op \in QueryOps

C32_Step ==
  QueryStep => UNCHANGED <<processes, running_ports, procs, host>>

\* C32: find_free_port, is_port_free, wait_for_service, is_service_running,
\* check_worker_registered, get_api_server_port and get_status leave the
\* process table and the port pool unchanged and start or signal no process,
\* whether they return a positive answer, a negative one, or raise.
C32_QueriesChangeNothing == [][C32_Step]_vars

C32_Witness ==
  /\ AtReturn("get_api_server_port")
  /\ ret.port = NoPort
  /\ processes # <<>>
  /\ \E i \in Tracked(processes) : Alive(i)

\* the health wait, grace period or registration check of a start method
WaitPcs == {"ctl_wait", "wk_check", "api_wait"}

\* the process launched for the port is in the table and the port is the
\* pool's last element
TrackedOn(port) ==
  /\ \E k \in 1..Len(processes) : procs[processes[k].proc].port = port
  /\ running_ports # <<>>
  /\ running_ports[Len(running_ports)] = port

\* the health wait of start_controller or start_openai_api_server ends
\* without a 200 answer
HealthTimeoutStep ==
  /\ pc \in {"ctl_wait", "api_wait"}
  /\ \/ pc' = "stop_loop"
     \/ pc' = "done" /\ ret'.status = "raised"

C33_Step ==
  /\ NewSlots # {} =>
       /\ pc \in LaunchPcs
       /\ pc' = AfterLaunch(pc)
       /\ \E i \in NewSlots :
            /\ NewSlots = {i}
            /\ i \in Tracked(processes')
            /\ running_ports' = Append(running_ports, procs'[i].port)
            /\ cur'.port = procs'[i].port
  /\ pc \in WaitPcs => TrackedOn(cur.port)
  /\ HealthTimeoutStep =>
       /\ UNCHANGED <<processes, running_ports, procs>>
       /\ op \in {"controller", "openai_api"} =>
            /\ pc' = "done"
            /\ ret'.op = op
            /\ \E k \in 1..Len(processes') :
                 procs'[processes'[k].proc].port = cur.port
            /\ running_ports'[Len(running_ports')] = cur.port
       /\ op = "full" => pc' = "stop_loop"
  /\ (pc \in LaunchPcs \cup WaitPcs /\ pc' = "stop_loop") => op = "full"

\* C33: every start method puts the launched process in the table and its
\* port in the pool in the launch step, before its health wait, grace period
\* or registration check, so the process is tracked when the wait times out;
\* start_controller and start_openai_api_server called by themselves then
\* raise with the process still tracked and not signalled, and only
\* start_full_stack goes on to stop the servers.
C33_TrackedBeforeWait == [][C33_Step]_vars

C33_Witness ==
  /\ AtReturn("openai_api")
  /\ ret.status = "raised"
  /\ ret.err = "ApiFailed"
  /\ \E k \in 1..Len(processes) :
       /\ processes[k].name = "openai_api"
       /\ Alive(processes[k].proc)
       /\ procs[processes[k].proc].port = running_ports[Len(running_ports)]

\* C34: send_prompt sends at most max_retries requests and never raises; it
\* returns a success result at the first attempt answered with 200 and sends
\* no request after it; after a connection error on the first attempt it
\* re-checks the API connection and stops without another attempt when the
\* check fails; when no attempt succeeds it returns a failure result; when
\* no model is available it returns a failure result without a request.
C34_SendPrompt ==
  AtReturn("send_prompt") =>
    /\ ret.status = "ok"
    /\ ret.value \in {"success", "failure"}
    /\ Len(ret.probes) <= ret.max_retries
    /\ \A k \in 1..Len(ret.probes) :
         ret.probes[k] \in Answered200 =>
           /\ k = Len(ret.probes)
           /\ ret.value = "success"
    /\ ret.value = "success" =>
         /\ ret.probes # <<>>
         /\ ret.probes[Len(ret.probes)] \in Answered200
    /\ (ret.probes # <<>> /\ ret.probes[1] = "ConnectionError") =>
         /\ ret.recheck \in {"ok", "failed"}
         /\ ret.recheck = "failed" => (Len(ret.probes) = 1 /\ ret.value = "failure")
    /\ ret.available = <<>> => (ret.probes = <<>> /\ ret.value = "failure")

\* the methods of the ServerManager that launch, signal or sweep processes
ManagerOps == {"full", "stop", "controller", "worker", "openai_api", "cleanup"}

\* C35: a tester with auto_start_servers=False launches and terminates no
\* process, whatever sequence of ensure_servers_running, run_tests and
\* cleanup is called; with auto_start_servers=True, ensure_servers_running
\* calls start_full_stack only after the test of the configured API base
\* (when there is one) and the probes of ports 8000, 8001 and 8080 have all
\* failed; and it returns True only if a GET /v1/models of the API base it
\* ends up with was answered 200 during that call.
C35_StartsOnlyWhenNeeded ==
  /\ ~tester.auto_start_servers =>
       /\ op \notin ManagerOps
       /\ processes = <<>>
       /\ running_ports = <<>>
       /\ \A i \in Pids : procs[i] = Gone
  /\ (op = "full" \/ tester.esr.started) =>
       /\ tester.auto_start_servers
       /\ tester.esr.base \in {"unset", "failed"}
       /\ tester.esr.base = "unset" <=> tester.api_base = "None"
       /\ Len(tester.esr.probes) = Len(EsrPorts)
       /\ \A k \in 1..Len(EsrPorts) : ~tester.esr.probes[k]
  /\ (AtReturn("ensure_servers_running") /\ ret.value = "True") =>
       tester.api_base \in ret.esr.answered

C35_Witness ==
  /\ AtReturn("ensure_servers_running")
  /\ ret.value = "True"
  /\ ret.esr.started
  /\ ret.esr.base = "failed"
  /\ \E i \in Tracked(processes) : Listening(i)
====
